---------------------------- MODULE Spec2Model ----------------------------
(***************************************************************************)
(* FhirViewMapper: the view-definition pipeline.                           *)
(*                                                                         *)
(*   - validateViewDefinition / validateSelectItem / validateWhereItem     *)
(*     (the structural validator of lib/viewdefinition-validator),         *)
(*   - the normalization of POST /api/profiles/:id/transform,              *)
(*   - the storage of transformations,                                     *)
(*   - ColumnBuilder.generateViewDefinition and ViewDefinitionViewer.      *)
(*                                                                         *)
(* JSON values are tagged records, JavaScript strings are TLA+ strings     *)
(* (read character by character with SubSeq), a thrown TypeError is an     *)
(* explicit outcome of the operator that models the throwing function.     *)
(***************************************************************************)
EXTENDS Integers, Sequences, FiniteSets, TLC

VARIABLES
    doc,            \* validator run: the value handed to validateViewDefinition
    validation,     \* validator run: what the call produced (NotRun before it)
    input,          \* normalizer run: transformationResult.viewDefinition as received
    profile,        \* normalizer run: the profile of the request
    normalized,     \* normalizer run: the document after the handler's normalization
    renormalized,   \* normalizer run: the normalization applied to its own output
    normValidation, \* normalizer run: validateViewDefinition of the normalized document
    transformations,\* MemStorage.transformations, in creation order
    nextTransformationId, \* MemStorage.nextTransformationId
    envApiKey,      \* process.env.ANTHROPIC_API_KEY
    response,       \* the last HTTP response the server sent
    received,       \* the 200 responses of transform requests, as the clients hold them
    users,          \* MemStorage.users, in creation order
    implementationGuides, \* MemStorage.implementationGuides, in creation order
    profiles,       \* MemStorage.profiles, in creation order
    nextUserId,     \* MemStorage.nextUserId
    nextGuideId,    \* MemStorage.nextGuideId
    nextProfileId,  \* MemStorage.nextProfileId
    step,           \* InteractiveBuilder state: step
    selectedGuide,  \* InteractiveBuilder state: selectedGuide
    selectedResourceType, \* InteractiveBuilder state: selectedResourceType
    selectedProfile,\* InteractiveBuilder state: selectedProfile (ColumnBuilder's profile)
    executionResults, \* InteractiveBuilder state: executionResults
    pending,        \* InteractiveBuilder: the execution requests whose response is awaited
    viewDefinition, \* InteractiveBuilder state: viewDefinition
    columns,        \* ColumnBuilder state: columns
    whereClauses,   \* ColumnBuilder state: whereClauses
    viewName,       \* ColumnBuilder state: viewName
    validationResult, \* ColumnBuilder state: validationResult
    viewerSql,      \* ViewDefinitionViewer: the text generateSQL() renders
    edits,          \* edits made in the column builder so far (bounds a run)
    previewDoc,     \* preview run: the document handed to generateSQLPreview
    sqlPreview,     \* preview run: what the call produced (NotRun before it)
    profileData,    \* recovery run: the profile handed to transformProfileToViewDefinition
    modelMessage,   \* recovery run: the content blocks of the model's message
    jsonContent,    \* recovery run: the text the recovery steps work on
    recoveryStep,   \* recovery run: the position inside transformProfileToViewDefinition
    attempts,       \* recovery run: the recovery steps run so far, with how each ended
    recovered,      \* recovery run: what transformProfileToViewDefinition produced
    transformerState, \* Router state: transformerState (guide, resource type, profile)
    location,       \* the route the transform wizard shows
    pathInput,      \* FHIRPath run: the text typed into a column's path field
    pathValidation, \* FHIRPath run: what validateFHIRPath returned (NotRun before it)
    pathError       \* FHIRPath run: ColumnBuilder's validationErrors entry of the column

vars == <<doc, validation, input, profile, normalized, renormalized, normValidation,
          transformations, nextTransformationId, envApiKey, response, received,
          users, implementationGuides, profiles, nextUserId, nextGuideId, nextProfileId,
          step, selectedGuide, selectedResourceType, selectedProfile, executionResults,
          pending, viewDefinition, columns, whereClauses, viewName,
          validationResult, viewerSql, edits,
          previewDoc, sqlPreview,
          profileData, modelMessage, jsonContent, recoveryStep, attempts, recovered,
          transformerState, location, pathInput, pathValidation, pathError>>

validatorVars == <<doc, validation>>
normalizerVars == <<input, profile, normalized, renormalized, normValidation>>
serverVars == <<transformations, nextTransformationId, envApiKey, response, received>>
selectionVars == <<selectedGuide, selectedResourceType>>
executionVars == <<executionResults, pending>>
pageVars == <<step, selectedProfile, viewDefinition, viewerSql, selectionVars, executionVars>>
columnBuilderVars == <<columns, whereClauses, viewName, validationResult>>
builderVars == <<pageVars, columnBuilderVars, edits>>
previewVars == <<previewDoc, sqlPreview>>
storageVars == <<users, implementationGuides, profiles, nextUserId, nextGuideId, nextProfileId>>
recoveryVars == <<profileData, modelMessage, jsonContent, recoveryStep, attempts, recovered>>
wizardVars == <<transformerState, location>>
pathVars == <<pathInput, pathValidation, pathError>>

(***************************************************************************)
(* Bounds of the model.                                                    *)
(***************************************************************************)
MaxBlocks == 2      \* longest select array
MaxCols == 2        \* longest column array of a block
MaxWhere == 2       \* longest where array
MaxEntries == 2     \* longest legacy select (flat entries or blocks)
MaxTransformations == 2  \* transformations created in one run
MaxEdits == 2       \* edits made in the column builder in one run

(***************************************************************************)
(* JSON values and the JavaScript operations the code applies to them.     *)
(***************************************************************************)
Undefined == [t |-> "undefined"]
Null == [t |-> "null"]
Str(s) == [t |-> "string", s |-> s]
Num(n) == [t |-> "number", n |-> n]
Bool(b) == [t |-> "boolean", b |-> b]
Arr(a) == [t |-> "array", a |-> a]
Obj(o) == [t |-> "object", o |-> o]

IsArray(v) == v.t = "array"
IsObject(v) == v.t = "object"
IsString(v) == v.t = "string"

\* A property read throws a TypeError on null and undefined.
Nullish(v) == v.t \in {"null", "undefined"}

\* v.k of a non-nullish value; the keys the code reads are own properties of
\* objects only (a string, number, boolean or array has none of them).
Get(v, k) == IF IsObject(v) /\ k \in DOMAIN v.o THEN v.o[k] ELSE Undefined

\* JavaScript truthiness of a JSON value.
Truthy(v) ==
    CASE v.t = "undefined" -> FALSE
      [] v.t = "null" -> FALSE
      [] v.t = "string" -> v.s # ""
      [] v.t = "number" -> v.n # 0
      [] v.t = "boolean" -> v.b
      [] OTHER -> TRUE

\* obj.k = x; an undefined value is a key JSON does not carry.
SetProp(v, k, x) ==
    IF x = Undefined THEN Obj([j \in DOMAIN v.o \ {k} |-> v.o[j]])
    ELSE Obj((k :> x) @@ v.o)

\* delete obj.k
DelProp(v, k) == Obj([j \in DOMAIN v.o \ {k} |-> v.o[j]])

\* [...].includes(v) for a list of string literals
Includes(set, v) == IsString(v) /\ v.s \in set

\* String(v) inside a template literal
TemplateString(v) ==
    CASE v.t = "string" -> v.s
      [] v.t = "number" -> ToString(v.n)
      [] v.t = "boolean" -> (IF v.b THEN "true" ELSE "false")
      [] v.t = "null" -> "null"
      [] v.t = "undefined" -> "undefined"
      [] v.t = "array" -> ""
      [] OTHER -> "[object Object]"

Range(s) == {s[i] : i \in DOMAIN s}

(***************************************************************************)
(* Characters and the two regular expressions of the validator.            *)
(***************************************************************************)
LowerChars == {"a","b","c","d","e","f","g","h","i","j","k","l","m",
               "n","o","p","q","r","s","t","u","v","w","x","y","z"}
UpperChars == {"A","B","C","D","E","F","G","H","I","J","K","L","M",
               "N","O","P","Q","R","S","T","U","V","W","X","Y","Z"}
DigitChars == {"0","1","2","3","4","5","6","7","8","9"}

CharAt(s, i) == SubSeq(s, i, i)

\* /^[a-z0-9\-]+$/.test(s)
KebabRegex(s) ==
    /\ Len(s) >= 1
    /\ \A i \in 1..Len(s) : CharAt(s, i) \in LowerChars \cup DigitChars \cup {"-"}

\* /^[a-zA-Z_][a-zA-Z0-9_]*$/.test(s)
IdentifierRegex(s) ==
    /\ Len(s) >= 1
    /\ CharAt(s, 1) \in LowerChars \cup UpperChars \cup {"_"}
    /\ \A i \in 2..Len(s) :
          CharAt(s, i) \in LowerChars \cup UpperChars \cup DigitChars \cup {"_"}

\* s.includes(sub)
StrIncludes(s, sub) ==
    \E i \in 1..(Len(s) - Len(sub) + 1) : SubSeq(s, i, i + Len(sub) - 1) = sub

(***************************************************************************)
(* validateViewDefinition.  The accumulator carries the errors and         *)
(* warnings arrays and whether a TypeError has ended the call; once it     *)
(* has, no later statement runs.                                           *)
(***************************************************************************)
StatusValues == {"draft", "active", "retired"}
JoinTypes == {"inner", "left", "right", "full"}
FhirDataTypes == {"string", "boolean", "integer", "decimal", "date", "dateTime", "time",
                  "code", "uri", "canonical", "base64Binary", "instant", "oid", "id",
                  "markdown", "unsignedInt", "positiveInt"}

NoIssues == [threw |-> FALSE, errors |-> <<>>, warnings |-> <<>>]
PushError(acc, e) == [acc EXCEPT !.errors = Append(@, e)]
PushWarning(acc, w) == [acc EXCEPT !.warnings = Append(@, w)]
ThrowTypeError(acc) == [acc EXCEPT !.threw = TRUE]

\* The locators: array indices are zero-based in the messages.
SelectPrefix(index) == "select[" \o ToString(index) \o "]"
ColumnPrefix(prefix, colIndex) == prefix \o ".column[" \o ToString(colIndex) \o "]"
WherePrefix(index) == "where[" \o ToString(index) \o "]"

\* ValidateColumn with the unrecognised type pushed to errors instead of warnings.
ValidateColumnTypeAsError(col, colPrefix, acc) ==
    IF acc.threw THEN acc
    ELSE IF Nullish(col) THEN ThrowTypeError(acc)
    ELSE
      LET name == Get(col, "name")
          path == Get(col, "path")
          type == Get(col, "type")
          a1 == IF ~Truthy(name) \/ ~IsString(name)
                THEN PushError(acc, colPrefix \o ".name is required and must be a string")
                ELSE IF ~IdentifierRegex(name.s)
                THEN PushWarning(acc, colPrefix \o ".name should be a valid SQL identifier")
                ELSE acc
          a2 == IF ~Truthy(path) \/ ~IsString(path)
                THEN PushError(a1, colPrefix
                                   \o ".path is required and must be a FHIRPath expression")
                ELSE a1
          a3 == IF Truthy(type) /\ ~Includes(FhirDataTypes, type)
                THEN PushError(a2, colPrefix \o ".type '" \o TemplateString(type)
                                   \o "' is not a standard FHIR data type")
                ELSE a2
      IN a3

\* The body of selectItem.column.forEach((col, colIndex) => ...).
ValidateColumn(col, colPrefix, acc) ==
    IF acc.threw THEN acc
    ELSE IF Nullish(col) THEN ThrowTypeError(acc)
    ELSE
      LET name == Get(col, "name")
          path == Get(col, "path")
          type == Get(col, "type")
          a1 == IF ~Truthy(name) \/ ~IsString(name)
                THEN PushError(acc, colPrefix \o ".name is required and must be a string")
                ELSE IF ~IdentifierRegex(name.s)
                THEN PushWarning(acc, colPrefix \o ".name should be a valid SQL identifier")
                ELSE acc
          a2 == IF ~Truthy(path) \/ ~IsString(path)
                THEN PushError(a1, colPrefix
                                   \o ".path is required and must be a FHIRPath expression")
                ELSE a1
          a3 == IF Truthy(type) /\ ~Includes(FhirDataTypes, type)
                THEN PushWarning(a2, colPrefix \o ".type '" \o TemplateString(type)
                                     \o "' is not a standard FHIR data type")
                ELSE a2
      IN a3

RECURSIVE ValidateColumns(_, _, _, _)
\* forEach over the column array, from zero-based index k.
ValidateColumns(cols, k, prefix, acc) ==
    IF k >= Len(cols) THEN acc
    ELSE ValidateColumns(cols, k + 1, prefix,
                         ValidateColumn(cols[k + 1], ColumnPrefix(prefix, k), acc))

\* The join checks of validateSelectItem.
ValidateJoin(join, prefix, acc) ==
    LET type == Get(join, "type")
        table == Get(join, "table")
        condition == Get(join, "condition")
        a1 == IF ~Truthy(type) \/ ~Includes(JoinTypes, type)
              THEN PushError(acc, prefix
                                  \o ".join.type must be one of: inner, left, right, full")
              ELSE acc
        a2 == IF ~Truthy(table) \/ ~IsString(table)
              THEN PushError(a1, prefix \o ".join.table is required for join configuration")
              ELSE a1
        a3 == IF ~Truthy(condition) \/ ~IsString(condition)
              THEN PushError(a2, prefix
                                 \o ".join.condition is required for join configuration")
              ELSE a2
    IN a3

ValidateSelectItem(selectItem, index, acc) ==
    LET prefix == SelectPrefix(index) IN
    IF acc.threw THEN acc
    ELSE IF Nullish(selectItem) THEN ThrowTypeError(acc)
    ELSE IF ~IsArray(Get(selectItem, "column"))
    THEN PushError(acc, prefix \o ".column must be an array")
    ELSE IF Len(Get(selectItem, "column").a) = 0
    THEN PushError(acc, prefix \o ".column array cannot be empty")
    ELSE
      LET a1 == ValidateColumns(Get(selectItem, "column").a, 0, prefix, acc)
          a2 == IF a1.threw THEN a1
                ELSE IF Truthy(Get(selectItem, "forEach"))
                        /\ Truthy(Get(selectItem, "forEachOrNull"))
                THEN PushWarning(a1, prefix
                        \o ": forEach and forEachOrNull should not both be specified")
                ELSE a1
          a3 == IF a2.threw THEN a2
                ELSE IF Truthy(Get(selectItem, "join"))
                THEN ValidateJoin(Get(selectItem, "join"), prefix, a2)
                ELSE a2
      IN a3

RECURSIVE ValidateSelectItems(_, _, _)
ValidateSelectItems(items, k, acc) ==
    IF k >= Len(items) THEN acc
    ELSE ValidateSelectItems(items, k + 1, ValidateSelectItem(items[k + 1], k, acc))

ValidateWhereItem(whereItem, index, acc) ==
    IF acc.threw THEN acc
    ELSE IF Nullish(whereItem) THEN ThrowTypeError(acc)
    ELSE IF ~Truthy(Get(whereItem, "expression")) \/ ~IsString(Get(whereItem, "expression"))
    THEN PushError(acc, WherePrefix(index)
                        \o ".expression is required and must be a FHIRPath expression")
    ELSE acc

RECURSIVE ValidateWhereItems(_, _, _)
ValidateWhereItems(items, k, acc) ==
    IF k >= Len(items) THEN acc
    ELSE ValidateWhereItems(items, k + 1, ValidateWhereItem(items[k + 1], k, acc))

\* The root-level checks, in the order of the code.
ValidateRoot(viewDef, acc) ==
    LET resourceType == Get(viewDef, "resourceType")
        id == Get(viewDef, "id")
        name == Get(viewDef, "name")
        status == Get(viewDef, "status")
        resource == Get(viewDef, "resource")
        a1 == IF ~Truthy(resourceType) \/ resourceType # Str("ViewDefinition")
              THEN PushError(acc, "resourceType must be 'ViewDefinition'")
              ELSE acc
        a2 == IF ~Truthy(id) \/ ~IsString(id)
              THEN PushError(a1, "id is required and must be a string")
              ELSE IF ~KebabRegex(id.s)
              THEN PushWarning(a1,
                      "id should only contain lowercase letters, numbers, and hyphens")
              ELSE a1
        a3 == IF ~Truthy(name) \/ ~IsString(name)
              THEN PushError(a2, "name is required and must be a string")
              ELSE a2
        a4 == IF ~Truthy(status) \/ ~Includes(StatusValues, status)
              THEN PushError(a3, "status must be one of: draft, active, retired")
              ELSE a3
        a5 == IF ~Truthy(resource) \/ ~IsString(resource)
              THEN PushError(a4,
                      "resource is required and must be a valid FHIR resource type")
              ELSE a4
    IN a5

\* The result object of validateViewDefinition; a call that threw returns nothing.
ValidationOutcome(acc) ==
    IF acc.threw THEN [threw |-> TRUE]
    ELSE [threw |-> FALSE, isValid |-> Len(acc.errors) = 0,
          errors |-> acc.errors, warnings |-> acc.warnings]

validateViewDefinition(viewDef) ==
    IF Nullish(viewDef) THEN [threw |-> TRUE]
    ELSE
      LET select == Get(viewDef, "select")
          where == Get(viewDef, "where")
          a1 == ValidateRoot(viewDef, NoIssues)
          a2 == IF ~IsArray(select) THEN PushError(a1, "select must be an array")
                ELSE IF Len(select.a) = 0
                THEN PushError(a1,
                        "select array cannot be empty - at least one column is required")
                ELSE ValidateSelectItems(select.a, 0, a1)
          a3 == IF a2.threw THEN a2
                ELSE IF Truthy(where) /\ ~IsArray(where)
                THEN PushError(a2, "where must be an array if provided")
                ELSE IF Truthy(where) THEN ValidateWhereItems(where.a, 0, a2)
                ELSE a2
      IN ValidationOutcome(a3)

NotRun == [threw |-> FALSE, notRun |-> TRUE]
Returned(v) == v # NotRun /\ ~v.threw


(***************************************************************************)
(* The documents handed to the validator: every select and where value of  *)
(* the bounded sets below under a conformant, a warning-only and a         *)
(* defective root, every combination of root-field defects, and the        *)
(* non-object values.                                                      *)
(***************************************************************************)
SeqsUpTo(S, n) == UNION {[1..k -> S] : k \in 0..n}
SeqsFromTo(S, m, n) == UNION {[1..k -> S] : k \in m..n}

ColId == Obj([name |-> Str("id"), path |-> Str("getResourceKey()"), type |-> Str("id")])
ColGender == Obj([name |-> Str("gender"), path |-> Str("gender")])
ColIdAgain == Obj([name |-> Str("id"), path |-> Str("identifier.value")])
ColWarn == Obj([name |-> Str("birth-date"), path |-> Str("birthDate"),
                type |-> Str("varchar")])
ColNoName == Obj([path |-> Str("active")])
ColNoPath == Obj([name |-> Str("active")])
ColumnValues == {ColId, ColGender, ColIdAgain, ColWarn, ColNoName, ColNoPath, Null}

Block(cols) == Obj([column |-> Arr(cols)])
GoodJoin == Obj([type |-> Str("left"), table |-> Str("Observation"),
                 condition |-> Str("Patient.id = Observation.subject")])
BadJoin == Obj([type |-> Str("outer")])

BlockForEach == Obj([column |-> Arr(<<ColGender>>), forEach |-> Str("name")])
BlockForEachOrNull == Obj([column |-> Arr(<<ColGender>>), forEachOrNull |-> Str("name")])
BlockBoth == Obj([column |-> Arr(<<ColGender>>), forEach |-> Str("name"),
                  forEachOrNull |-> Str("name")])
BlockGoodJoin == Obj([column |-> Arr(<<ColGender>>), join |-> GoodJoin])
BlockBadJoin == Obj([column |-> Arr(<<ColGender>>), join |-> BadJoin])
BlockEmptyJoin == Obj([column |-> Arr(<<ColGender>>), join |-> Obj(<<>>)])
BlockNoColumnsBadJoin == Obj([column |-> Arr(<<>>), join |-> BadJoin])
BlockNoColumnBadJoin == Obj([join |-> BadJoin])
BlockBadColumnBoth == Obj([column |-> Arr(<<ColNoName>>), forEach |-> Str("name"),
                           forEachOrNull |-> Str("name"), join |-> BadJoin])

BlockValues ==
    {Block(cs) : cs \in SeqsUpTo(ColumnValues, MaxCols)}
    \cup {Obj(<<>>), Obj([column |-> Str("id")]), Null, Str("id"),
          BlockForEach, BlockForEachOrNull, BlockBoth, BlockGoodJoin, BlockBadJoin,
          BlockEmptyJoin, BlockNoColumnsBadJoin, BlockNoColumnBadJoin, BlockBadColumnBoth}

\* The blocks that longer select arrays are built from.
CoreBlocks == {Block(<<ColId>>), Block(<<ColIdAgain>>), Block(<<ColGender>>), BlockBoth,
               BlockNoColumnsBadJoin, Null}

SelectValues ==
    {Undefined, Str("id")}
    \cup {Arr(<<b>>) : b \in BlockValues}
    \cup {Arr(bs) : bs \in SeqsFromTo(CoreBlocks, 2, MaxBlocks)}
    \cup {Arr(<<>>)}

WhereGood == Obj([expression |-> Str("active = true")])
WherePath == Obj([path |-> Str("active = true")])
WhereEmpty == Obj([expression |-> Str("")])
WhereItemValues == {WhereGood, WherePath, WhereEmpty, Null}
WhereValues ==
    {Undefined, Str("active = true")} \cup {Arr(ws) : ws \in SeqsUpTo(WhereItemValues, MaxWhere)}

\* A root object: a field is left out where its value is Undefined.
Root(resourceType, id, name, status, resource, select, where) ==
    LET fields == [resourceType |-> resourceType, id |-> id, name |-> name,
                   status |-> status, resource |-> resource, select |-> select,
                   where |-> where]
        present == {k \in DOMAIN fields : fields[k] # Undefined}
    IN Obj([k \in present |-> fields[k]])

GoodSelect == Arr(<<Block(<<ColId, ColGender>>)>>)
GoodWhere == Arr(<<WhereGood>>)

RootFieldValues ==
    [resourceType : {Undefined, Str("ViewDefinition"), Str("Bundle")},
     id : {Undefined, Str("patient-view"), Str("Patient_View"), Num(7)},
     name : {Undefined, Str("PatientView")},
     status : {Undefined, Str("draft"), Str("final")},
     resource : {Undefined, Str("Patient")}]

GoodRootFields == [resourceType |-> Str("ViewDefinition"), id |-> Str("patient-view"),
                   name |-> Str("PatientView"), status |-> Str("draft"),
                   resource |-> Str("Patient")]
WarnRootFields == [GoodRootFields EXCEPT !.id = Str("Patient_View")]
BadRootFields == [resourceType |-> Str("Bundle"), id |-> Num(7), name |-> Undefined,
                  status |-> Str("final"), resource |-> Undefined]
RootContexts == {GoodRootFields, WarnRootFields, BadRootFields}

RootOf(r, select, where) ==
    Root(r.resourceType, r.id, r.name, r.status, r.resource, select, where)

ValidatorDocs ==
    {RootOf(r, GoodSelect, GoodWhere) : r \in RootFieldValues}
    \cup {RootOf(r, s, w) : r \in RootContexts, s \in SelectValues,
                            w \in {Undefined, GoodWhere, Arr(<<Null>>)}}
    \cup {RootOf(r, s, w) : r \in RootContexts,
                            s \in {GoodSelect, Arr(<<>>), Arr(<<Block(<<ColWarn>>)>>)},
                            w \in WhereValues}
    \cup {Null, Str("ViewDefinition"), Arr(<<>>), Num(0)}

(***************************************************************************)
(* Idle values of the parts a run does not use.                            *)
(***************************************************************************)
(***************************************************************************)
(* The guides and profiles seeded by MemStorage.initializeUSCore.          *)
(***************************************************************************)
PatientUrl == "http://hl7.org/fhir/us/core/StructureDefinition/us-core-patient"
BloodPressureUrl == "http://hl7.org/fhir/us/core/StructureDefinition/us-core-blood-pressure"
SeededProfiles ==
    <<[id |-> 1, implementationGuideId |-> 1, resourceType |-> "Patient",
       name |-> "US Core Patient Profile", url |-> PatientUrl],
      [id |-> 2, implementationGuideId |-> 1, resourceType |-> "Observation",
       name |-> "US Core Blood Pressure Profile", url |-> BloodPressureUrl],
      [id |-> 3, implementationGuideId |-> 2, resourceType |-> "Patient",
       name |-> "US Core Patient Profile", url |-> PatientUrl],
      [id |-> 4, implementationGuideId |-> 2, resourceType |-> "Observation",
       name |-> "US Core Blood Pressure Profile", url |-> BloodPressureUrl]>>
SeededGuides ==
    <<[id |-> 1, name |-> "US Core Implementation Guide", version |-> "5.0.1",
       url |-> "http://hl7.org/fhir/us/core/ImplementationGuide/hl7.fhir.us.core",
       description |-> "US Core Implementation Guide v5.0.1"],
      [id |-> 2, name |-> "US Core Implementation Guide", version |-> "6.1.0",
       url |-> "http://hl7.org/fhir/us/core/ImplementationGuide/hl7.fhir.us.core-6.1.0",
       description |-> "US Core Implementation Guide v6.1.0"]>>
\* MemStorage after its constructor: the field initializers and initializeUSCore
StorageSeeded ==
    /\ users = <<>>
    /\ implementationGuides = SeededGuides
    /\ profiles = SeededProfiles
    /\ nextUserId = 1
    /\ nextGuideId = Len(SeededGuides) + 1
    /\ nextProfileId = Len(SeededProfiles) + 1

NoProfile == [id |-> 0]
NoGuide == [id |-> 0]
NoResponse == [status |-> 0]
NoMessage == [content |-> Undefined]

ValidatorIdle == doc = Undefined /\ validation = NotRun
NormalizerIdle ==
    /\ input = Undefined
    /\ profile = NoProfile
    /\ normalized = NotRun
    /\ renormalized = NotRun
    /\ normValidation = NotRun
ServerIdle ==
    /\ transformations = <<>>
    /\ nextTransformationId = 1
    /\ envApiKey = Undefined
    /\ response = NoResponse
    /\ received = {}
BuilderIdle ==
    /\ step = "setup"
    /\ selectedGuide = NoGuide
    /\ selectedResourceType = ""
    /\ selectedProfile = NoProfile
    /\ executionResults = Null
    /\ pending = {}
    /\ viewDefinition = Null
    /\ columns = <<>>
    /\ whereClauses = <<>>
    /\ viewName = ""
    /\ validationResult = NotRun
    /\ viewerSql = Null
    /\ edits = 0
PreviewIdle == previewDoc = Undefined /\ sqlPreview = NotRun
\* Router's useState({}) with the wizard on its first route
WizardIdle ==
    /\ transformerState = [implementationGuide |-> NoGuide, resourceType |-> "",
                           profile |-> NoProfile, transformationResult |-> Null]
    /\ location = "/transform"
PathIdle == pathInput = "" /\ pathValidation = NotRun /\ pathError = ""
RecoveryIdle ==
    /\ profileData = NoProfile
    /\ modelMessage = NoMessage
    /\ jsonContent = ""
    /\ recoveryStep = "idle"
    /\ attempts = <<>>
    /\ recovered = NotRun

(***************************************************************************)
(* The validator run: one call of validateViewDefinition on a document.    *)
(***************************************************************************)
InitValidate ==
    /\ doc \in ValidatorDocs
    /\ validation = NotRun
    /\ NormalizerIdle /\ ServerIdle /\ BuilderIdle /\ PreviewIdle /\ StorageSeeded /\ WizardIdle /\ PathIdle /\ RecoveryIdle

Validate ==
    /\ validation = NotRun
    /\ validation' = validateViewDefinition(doc)
    /\ UNCHANGED <<doc, normalizerVars, serverVars, builderVars, previewVars, storageVars, wizardVars, pathVars, recoveryVars>>

NextValidate == Validate

SpecValidate == InitValidate /\ [][NextValidate]_vars


(***************************************************************************)
(* What the properties of the validator speak about.                       *)
(***************************************************************************)
SelectOf(d) == IF IsObject(d) /\ IsArray(Get(d, "select")) THEN Get(d, "select").a ELSE <<>>
WhereOf(d) == IF IsObject(d) /\ IsArray(Get(d, "where")) THEN Get(d, "where").a ELSE <<>>
ColumnsOf(b) == IF IsObject(b) /\ IsArray(Get(b, "column")) THEN Get(b, "column").a ELSE <<>>

\* The flattened select: the zero-based (block, column) positions, in document order.
ColumnLocations(d) ==
    {<<i, j>> \in (0..(Len(SelectOf(d)) - 1)) \X (0..(MaxCols + 1)) :
        j < Len(ColumnsOf(SelectOf(d)[i + 1]))}
ColumnAt(d, loc) == ColumnsOf(SelectOf(d)[loc[1] + 1])[loc[2] + 1]
Locator(loc) == ColumnPrefix(SelectPrefix(loc[1]), loc[2])

\* Two positions of the flattened select that carry the same column name.
DuplicatePairs(d) ==
    {pq \in ColumnLocations(d) \X ColumnLocations(d) :
        /\ pq[1] # pq[2]
        /\ IsString(Get(ColumnAt(d, pq[1]), "name"))
        /\ Get(ColumnAt(d, pq[1]), "name") = Get(ColumnAt(d, pq[2]), "name")}

\* The errors that name both positions of some duplicated name.
UniquenessErrors(d, errors) ==
    {k \in DOMAIN errors :
        \E pq \in DuplicatePairs(d) :
            /\ StrIncludes(errors[k], Locator(pq[1]))
            /\ StrIncludes(errors[k], Locator(pq[2]))}

HasBothIterations(b) ==
    IsObject(b) /\ Truthy(Get(b, "forEach")) /\ Truthy(Get(b, "forEachOrNull"))

\* The validator's rules, one by one: the error each violated rule stands for.
When(violated, e) == IF violated THEN {e} ELSE {}
RequiredString(v) == IsString(v) /\ Truthy(v)

RootRuleErrors(d) ==
    When(Get(d, "resourceType") # Str("ViewDefinition"),
         "resourceType must be 'ViewDefinition'")
    \cup When(~RequiredString(Get(d, "id")), "id is required and must be a string")
    \cup When(~RequiredString(Get(d, "name")), "name is required and must be a string")
    \cup When(~Includes(StatusValues, Get(d, "status")),
              "status must be one of: draft, active, retired")
    \cup When(~RequiredString(Get(d, "resource")),
              "resource is required and must be a valid FHIR resource type")

ColumnRuleErrors(col, colPrefix) ==
    When(~RequiredString(Get(col, "name")),
         colPrefix \o ".name is required and must be a string")
    \cup When(~RequiredString(Get(col, "path")),
              colPrefix \o ".path is required and must be a FHIRPath expression")

JoinRuleErrors(b, prefix) ==
    IF ~Truthy(Get(b, "join")) THEN {}
    ELSE When(~Includes(JoinTypes, Get(Get(b, "join"), "type")),
              prefix \o ".join.type must be one of: inner, left, right, full")
         \cup When(~RequiredString(Get(Get(b, "join"), "table")),
                   prefix \o ".join.table is required for join configuration")
         \cup When(~RequiredString(Get(Get(b, "join"), "condition")),
                   prefix \o ".join.condition is required for join configuration")

BlockRuleErrors(b, index) ==
    When(~IsArray(Get(b, "column")), SelectPrefix(index) \o ".column must be an array")
    \cup When(IsArray(Get(b, "column")) /\ ColumnsOf(b) = <<>>,
              SelectPrefix(index) \o ".column array cannot be empty")
    \cup UNION {ColumnRuleErrors(ColumnsOf(b)[j], ColumnPrefix(SelectPrefix(index), j - 1)) :
                  j \in DOMAIN ColumnsOf(b)}
    \cup JoinRuleErrors(b, SelectPrefix(index))

SelectRuleErrors(d) ==
    When(~IsArray(Get(d, "select")), "select must be an array")
    \cup When(IsArray(Get(d, "select")) /\ SelectOf(d) = <<>>,
              "select array cannot be empty - at least one column is required")
    \cup UNION {BlockRuleErrors(SelectOf(d)[i], i - 1) : i \in DOMAIN SelectOf(d)}

WhereRuleErrors(d) ==
    When(Truthy(Get(d, "where")) /\ ~IsArray(Get(d, "where")),
         "where must be an array if provided")
    \cup UNION {When(~RequiredString(Get(WhereOf(d)[i], "expression")),
                     WherePrefix(i - 1)
                     \o ".expression is required and must be a FHIRPath expression") :
                  i \in DOMAIN WhereOf(d)}

ViolatedRuleErrors(d) == RootRuleErrors(d) \cup SelectRuleErrors(d) \cup WhereRuleErrors(d)

\* The document with its warning-only defects repaired: a kebab-case id, column
\* names that are identifiers, no unrecognised column type.
SanitizeColumn(col) ==
    IF ~IsObject(col) THEN col
    ELSE LET named == IF RequiredString(Get(col, "name"))
                         /\ ~IdentifierRegex(Get(col, "name").s)
                      THEN SetProp(col, "name", Str("c")) ELSE col
         IN IF Truthy(Get(col, "type")) /\ ~Includes(FhirDataTypes, Get(col, "type"))
            THEN DelProp(named, "type") ELSE named

SanitizeBlock(b) ==
    IF IsObject(b) /\ IsArray(Get(b, "column"))
    THEN SetProp(b, "column",
                 Arr([j \in DOMAIN ColumnsOf(b) |-> SanitizeColumn(ColumnsOf(b)[j])]))
    ELSE b

Sanitize(d) ==
    IF ~IsObject(d) THEN d
    ELSE LET ided == IF RequiredString(Get(d, "id")) /\ ~KebabRegex(Get(d, "id").s)
                     THEN SetProp(d, "id", Str("view")) ELSE d
         IN IF IsArray(Get(d, "select"))
            THEN SetProp(ided, "select",
                         Arr([i \in DOMAIN SelectOf(d) |-> SanitizeBlock(SelectOf(d)[i])]))
            ELSE ided

IdWarning == "id should only contain lowercase letters, numbers, and hyphens"
NameWarning(loc) == Locator(loc) \o ".name should be a valid SQL identifier"
TypeWarning(loc, type) ==
    Locator(loc) \o ".type '" \o TemplateString(type) \o "' is not a standard FHIR data type"

(***************************************************************************)
(* Properties of the validator (SpecValidate).                             *)
(***************************************************************************)

\* C2: every document whose select is the empty array gets at least one error
\* from validation - also a document whose select was missing and became []
\* in the handler's normalization.
C2_EmptySelectHasError ==
    /\ (validation # NotRun /\ IsObject(doc) /\ Get(doc, "select") = Arr(<<>>))
          => (Returned(validation) /\ Len(validation.errors) >= 1)
    /\ (normValidation # NotRun /\ ~Truthy(Get(input, "select"))
        /\ ~Truthy(Get(Get(input, "definition"), "select")))
          => (Returned(normValidation) /\ Len(normValidation.errors) >= 1)

\* C3: two columns with the same name anywhere in the flattened select make
\* validation report exactly one uniqueness error, which names both locations.
C3_DuplicateNameOneUniquenessError ==
    (Returned(validation) /\ DuplicatePairs(doc) # {})
        => Cardinality(UniquenessErrors(doc, validation.errors)) = 1

\* C5: validation never stops at the first defect - the errors list holds the
\* error of every rule the document violates, whatever else is violated.
C5_EveryViolatedRuleReported ==
    Returned(validation) => ViolatedRuleErrors(doc) \subseteq Range(validation.errors)

\* C6: validateViewDefinition returns a structured result for every JSON
\* value (null and arrays holding null included) and never throws.
C6_ValidationNeverThrows ==
    validation # NotRun => ~validation.threw

\* C7: isValid is true exactly when errors is empty; a non-kebab-case id, a
\* column name that is no identifier and an unrecognised column type each add
\* a warning and no error: the errors are those of the same document with the
\* three repaired.
C7_WarningsNeverBlock ==
    Returned(validation) =>
        /\ validation.isValid = (validation.errors = <<>>)
        /\ (RequiredString(Get(doc, "id")) /\ ~KebabRegex(Get(doc, "id").s))
              => /\ IdWarning \in Range(validation.warnings)
                 /\ "id is required and must be a string" \notin Range(validation.errors)
        /\ \A loc \in ColumnLocations(doc) :
              LET name == Get(ColumnAt(doc, loc), "name")
                  type == Get(ColumnAt(doc, loc), "type")
              IN /\ (RequiredString(name) /\ ~IdentifierRegex(name.s))
                       => /\ NameWarning(loc) \in Range(validation.warnings)
                          /\ (Locator(loc) \o ".name is required and must be a string")
                                \notin Range(validation.errors)
                 /\ (Truthy(type) /\ ~Includes(FhirDataTypes, type))
                       => TypeWarning(loc, type) \in Range(validation.warnings)
        /\ Returned(validateViewDefinition(Sanitize(doc)))
        /\ validation.errors = validateViewDefinition(Sanitize(doc)).errors

\* C7 witness: a document with all three warning-only defects was validated
\* and found valid.
C7_Witness ==
    /\ Returned(validation)
    /\ validation.isValid
    /\ IdWarning \in Range(validation.warnings)
    /\ \E loc \in ColumnLocations(doc) :
          /\ NameWarning(loc) \in Range(validation.warnings)
          /\ TypeWarning(loc, Get(ColumnAt(doc, loc), "type")) \in Range(validation.warnings)


(***************************************************************************)
(* The normalization of POST /api/profiles/:id/transform: the statements   *)
(* between the model's answer and storage.createTransformation.  The       *)
(* viewDefinition is an object; a TypeError ends the handler in its catch. *)
(***************************************************************************)
Done(d) == [threw |-> FALSE, doc |-> d]
Threw == [threw |-> TRUE]

\* if (!viewDefinition.resourceType) viewDefinition.resourceType = "ViewDefinition"
EnsureResourceType(vd) ==
    IF ~Truthy(Get(vd, "resourceType")) THEN SetProp(vd, "resourceType", Str("ViewDefinition"))
    ELSE vd

\* Object.values of an object whose keys are array indices: ascending index order.
MaxObjectIndex == MaxEntries + 1
RECURSIVE ObjectValuesFrom(_, _)
ObjectValuesFrom(o, i) ==
    IF i > MaxObjectIndex THEN <<>>
    ELSE (IF ToString(i) \in DOMAIN o THEN <<o[ToString(i)]>> ELSE <<>>)
         \o ObjectValuesFrom(o, i + 1)
ObjectValues(v) == ObjectValuesFrom(v.o, 0)

\* item => ({ name: item.name, path: item.path })
FlatToColumn(item) ==
    SetProp(SetProp(Obj(<<>>), "name", Get(item, "name")), "path", Get(item, "path"))

\* The value assigned to viewDefinition.select from definition.select.
ConvertLegacySelect(select) ==
    LET selectArray == IF ~IsArray(select) /\ IsObject(select)
                       THEN Arr(ObjectValues(select)) ELSE select
    IN IF IsArray(selectArray) /\ Len(selectArray.a) > 0
       THEN IF Nullish(selectArray.a[1]) THEN Threw
            ELSE IF Truthy(Get(selectArray.a[1], "path"))
                    /\ ~Truthy(Get(selectArray.a[1], "column"))
            THEN IF \E i \in DOMAIN selectArray.a : Nullish(selectArray.a[i]) THEN Threw
                 ELSE Done(Arr(<<Obj([column |->
                        Arr([i \in DOMAIN selectArray.a |-> FlatToColumn(selectArray.a[i])])])>>))
            ELSE Done(selectArray)
       ELSE Done(selectArray)

\* if (viewDefinition.definition) { ... delete viewDefinition.definition }
ConvertDefinition(vd) ==
    LET definition == Get(vd, "definition") IN
    IF ~Truthy(definition) THEN Done(vd)
    ELSE
      LET v1 == IF Truthy(Get(definition, "resourceType"))
                THEN SetProp(vd, "resource", Get(definition, "resourceType")) ELSE vd
          sel == ConvertLegacySelect(Get(definition, "select"))
      IN IF Truthy(Get(definition, "select")) /\ sel.threw THEN Threw
         ELSE
           LET v2 == IF Truthy(Get(definition, "select"))
                     THEN SetProp(v1, "select", sel.doc) ELSE v1
               v3 == IF Truthy(Get(definition, "where"))
                     THEN SetProp(v2, "where", Get(definition, "where")) ELSE v2
           IN Done(DelProp(v3, "definition"))

\* if (!viewDefinition.resource) viewDefinition.resource = profile.resourceType
EnsureResource(vd, p) ==
    IF ~Truthy(Get(vd, "resource")) THEN SetProp(vd, "resource", Str(p.resourceType)) ELSE vd

\* if (!viewDefinition.select) viewDefinition.select = []
EnsureSelect(vd) ==
    IF ~Truthy(Get(vd, "select")) THEN SetProp(vd, "select", Arr(<<>>)) ELSE vd

\* The default where clause of the handler.
ProfileFilter(p) == Obj([path |-> Str("meta.profile.contains('" \o p.url \o "')")])

\* whereClause => (whereClause.fhirPath && !whereClause.path)
\*                    ? { path: whereClause.fhirPath } : whereClause
MapWhereClause(whereClause) ==
    IF Truthy(Get(whereClause, "fhirPath")) /\ ~Truthy(Get(whereClause, "path"))
    THEN Obj([path |-> Get(whereClause, "fhirPath")])
    ELSE whereClause

\* NormalizeWhere with the profile filter added whether or not where is present.
NormalizeWhereAlwaysAddsFilter(vd, p) ==
    LET where == Get(vd, "where") IN
    IF ~Truthy(where) THEN Done(SetProp(vd, "where", Arr(<<ProfileFilter(p)>>)))
    ELSE IF ~IsArray(where) THEN Threw
    ELSE IF \E i \in DOMAIN where.a : Nullish(where.a[i]) THEN Threw
    ELSE Done(SetProp(vd, "where",
                      Arr(<<ProfileFilter(p)>>
                          \o [i \in DOMAIN where.a |-> MapWhereClause(where.a[i])])))

\* if (!viewDefinition.where) { default } else { viewDefinition.where.map(...) }
NormalizeWhere(vd, p) ==
    LET where == Get(vd, "where") IN
    IF ~Truthy(where) THEN Done(SetProp(vd, "where", Arr(<<ProfileFilter(p)>>)))
    ELSE IF ~IsArray(where) THEN Threw
    ELSE IF \E i \in DOMAIN where.a : Nullish(where.a[i]) THEN Threw
    ELSE Done(SetProp(vd, "where",
                      Arr([i \in DOMAIN where.a |-> MapWhereClause(where.a[i])])))

NormalizeViewDefinition(vd, p) ==
    LET converted == ConvertDefinition(EnsureResourceType(vd)) IN
    IF converted.threw THEN Threw
    ELSE NormalizeWhere(EnsureSelect(EnsureResource(converted.doc, p)), p)


(***************************************************************************)
(* The documents the model's answer may carry: the three legacy shapes     *)
(*   (a) a definition sub-object holding resourceType / select / where,    *)
(*   (b) a select object keyed by array indices,                           *)
(*   (c) flat {name, path} select entries,                                 *)
(* in every combination, with and without where, select and resource.      *)
(***************************************************************************)
FlatId == Obj([name |-> Str("id"), path |-> Str("getResourceKey()")])
FlatGender == Obj([name |-> Str("gender"), path |-> Str("gender")])
FlatEntries == {FlatId, FlatGender}

\* (c) or not: the entries as they are, or one block per entry.
AsBlocks(es) == [i \in DOMAIN es |-> Obj([column |-> Arr(<<es[i]>>)])]
\* (b) or not: an object keyed "0", "1", ... or an array.
AsIndexObject(items) == Obj([k \in {ToString(i - 1) : i \in DOMAIN items} |->
                               items[CHOOSE i \in DOMAIN items : ToString(i - 1) = k]])

LegacySelects ==
    {Undefined, Arr(<<>>),
     Arr(<<FlatId, Block(<<FlatGender>>)>>), Arr(<<Block(<<FlatId>>), FlatGender>>)}
    \cup UNION {{Arr(es), Arr(AsBlocks(es)), AsIndexObject(es), AsIndexObject(AsBlocks(es))} :
                  es \in SeqsFromTo(FlatEntries, 1, MaxEntries)}

LegacyWheres ==
    {Undefined, Arr(<<>>),
     Arr(<<Obj([path |-> Str("active = true")])>>),
     Arr(<<Obj([fhirPath |-> Str("active = true")])>>),
     Arr(<<Obj([expression |-> Str("active = true")])>>),
     Arr(<<Obj([fhirPath |-> Str("active = true"), path |-> Str("active")]),
           Obj([fhirPath |-> Str("gender = 'female'")])>>)}

\* The fields every answer of the model carries besides the view itself.
Heading(resourceType) ==
    Root(resourceType, Str("patient-view"), Str("PatientView"), Str("draft"),
         Undefined, Undefined, Undefined)

\* The view at the top level, or (a) inside a definition sub-object.
TopLevelDoc(resourceType, resource, select, where) ==
    Root(resourceType, Str("patient-view"), Str("PatientView"), Str("draft"),
         resource, select, where)
DefinitionDoc(resourceType, resource, select, where) ==
    LET fields == [resourceType |-> resource, select |-> select, where |-> where]
        present == {k \in DOMAIN fields : fields[k] # Undefined}
    IN SetProp(Heading(resourceType), "definition", Obj([k \in present |-> fields[k]]))

LegacyDocs ==
    UNION {{TopLevelDoc(rt, r, s, w), DefinitionDoc(rt, r, s, w)} :
              rt \in {Undefined, Str("ViewDefinition")},
              r \in {Undefined, Str("Patient")},
              s \in LegacySelects,
              w \in LegacyWheres}

\* Answers on which a statement of the normalization throws.
MalformedDocs ==
    {TopLevelDoc(Str("ViewDefinition"), Str("Patient"), GoodSelect, Str("active = true")),
     TopLevelDoc(Str("ViewDefinition"), Str("Patient"), GoodSelect, Arr(<<Null>>)),
     DefinitionDoc(Str("ViewDefinition"), Str("Patient"), Arr(<<Null>>), Undefined),
     DefinitionDoc(Str("ViewDefinition"), Str("Patient"), Arr(<<FlatId, Null>>), Undefined)}

(***************************************************************************)
(* The normalizer run: the handler's normalization of one answer, the      *)
(* normalization of its own output, and the validation of the output.      *)
(***************************************************************************)
InitNormalize ==
    /\ input \in LegacyDocs \cup MalformedDocs
    /\ profile \in {SeededProfiles[1], SeededProfiles[2]}
    /\ normalized = NotRun
    /\ renormalized = NotRun
    /\ normValidation = NotRun
    /\ ValidatorIdle /\ ServerIdle /\ BuilderIdle /\ PreviewIdle /\ StorageSeeded /\ WizardIdle /\ PathIdle /\ RecoveryIdle

Normalize ==
    /\ normalized = NotRun
    /\ normalized' = NormalizeViewDefinition(input, profile)
    /\ UNCHANGED <<input, profile, renormalized, normValidation,
                   validatorVars, serverVars, builderVars, previewVars, storageVars, wizardVars, pathVars, recoveryVars>>

Renormalize ==
    /\ normalized # NotRun /\ ~normalized.threw
    /\ renormalized = NotRun
    /\ renormalized' = NormalizeViewDefinition(normalized.doc, profile)
    /\ UNCHANGED <<input, profile, normalized, normValidation,
                   validatorVars, serverVars, builderVars, previewVars, storageVars, wizardVars, pathVars, recoveryVars>>

ValidateNormalized ==
    /\ normalized # NotRun /\ ~normalized.threw
    /\ normValidation = NotRun
    /\ normValidation' = validateViewDefinition(normalized.doc)
    /\ UNCHANGED <<input, profile, normalized, renormalized,
                   validatorVars, serverVars, builderVars, previewVars, storageVars, wizardVars, pathVars, recoveryVars>>

NextNormalize == Normalize \/ Renormalize \/ ValidateNormalized

SpecNormalize == InitNormalize /\ [][NextNormalize]_vars

(***************************************************************************)
(* Properties of the normalization (SpecNormalize).                        *)
(***************************************************************************)
\* The legacy shapes an input exhibits.
ShapeA(d) == Truthy(Get(d, "definition"))
RawSelect(d) == IF ShapeA(d) THEN Get(Get(d, "definition"), "select") ELSE Get(d, "select")
RawWhere(d) ==
    IF ShapeA(d) /\ Truthy(Get(Get(d, "definition"), "where"))
    THEN Get(Get(d, "definition"), "where") ELSE Get(d, "where")
ShapeB(d) == IsObject(RawSelect(d))
RawEntries(d) ==
    IF IsArray(RawSelect(d)) THEN RawSelect(d).a
    ELSE IF IsObject(RawSelect(d)) THEN ObjectValues(RawSelect(d))
    ELSE <<>>
IsFlatEntry(e) == IsObject(e) /\ "path" \in DOMAIN e.o /\ "column" \notin DOMAIN e.o
ShapeC(d) == RawEntries(d) # <<>> /\ \A i \in DOMAIN RawEntries(d) : IsFlatEntry(RawEntries(d)[i])

IsBlock(b) == IsObject(b) /\ IsArray(Get(b, "column"))
IsBlockArray(select) == IsArray(select) /\ \A i \in DOMAIN select.a : IsBlock(select.a[i])

\* The canonical shape: resourceType and resource at the top level, no
\* definition, select an array of blocks, where an array of filters none of
\* which is given by fhirPath alone.
IsCanonical(d) ==
    /\ IsObject(d)
    /\ Truthy(Get(d, "resourceType"))
    /\ Truthy(Get(d, "resource"))
    /\ "definition" \notin DOMAIN d.o
    /\ IsBlockArray(Get(d, "select"))
    /\ IsArray(Get(d, "where"))
    /\ \A i \in DOMAIN Get(d, "where").a :
          /\ IsObject(Get(d, "where").a[i])
          /\ ~(Truthy(Get(Get(d, "where").a[i], "fhirPath"))
               /\ ~Truthy(Get(Get(d, "where").a[i], "path")))

\* C8: for every input with any non-empty combination of the legacy shapes
\* (a), (b), (c) - (b) and (c) also at the top level without (a) - the
\* normalized document has a top-level resource, no definition key and a
\* select that is an array of blocks carrying a column array.
C8_LegacyShapesBecomeCanonical ==
    (normalized # NotRun /\ input \in LegacyDocs
     /\ (ShapeA(input) \/ ShapeB(input) \/ ShapeC(input)))
        => /\ ~normalized.threw
           /\ Truthy(Get(normalized.doc, "resource"))
           /\ "definition" \notin DOMAIN normalized.doc.o
           /\ IsBlockArray(Get(normalized.doc, "select"))

\* C9: normalization is idempotent - normalizing the normalized document with
\* the same profile gives it back - and a canonical document is returned
\* unchanged.
C9_NormalizationIdempotent ==
    /\ renormalized # NotRun => renormalized = normalized
    /\ (normalized # NotRun /\ IsCanonical(input)) => normalized = Done(input)

\* C9 witness: an input with all three legacy shapes and a fhirPath filter was
\* rewritten by the first pass and then normalized again.
C9_Witness ==
    /\ renormalized # NotRun
    /\ ShapeA(input) /\ ShapeB(input) /\ ShapeC(input)
    /\ IsArray(RawWhere(input))
    /\ \E i \in DOMAIN RawWhere(input).a : Truthy(Get(RawWhere(input).a[i], "fhirPath"))
    /\ normalized.doc # input

\* C10: when the input has no where, normalization sets where to exactly one
\* entry, which references the profile URL and passes the validator's rule
\* for where entries (a present, non-empty expression).
C10_DefaultWhereIsWellFormed ==
    (normalized # NotRun /\ ~normalized.threw /\ ~Truthy(RawWhere(input)))
        => LET where == Get(normalized.doc, "where") IN
           /\ IsArray(where) /\ Len(where.a) = 1
           /\ \E k \in DOMAIN where.a[1].o :
                 IsString(where.a[1].o[k]) /\ StrIncludes(where.a[1].o[k].s, profile.url)
           /\ ValidateWhereItem(where.a[1], 0, NoIssues).errors = <<>>

(***************************************************************************)
(* The server: POST /api/profiles/:id/transform and                        *)
(* GET /api/transformations/:id over the MemStorage instance.              *)
(***************************************************************************)
NaN == [t |-> "NaN"]

\* parseInt(s) of a route parameter: the value of the leading decimal digits,
\* NaN when there is none (the parameters of the model carry no sign and no
\* leading white space).
DigitValue(c) == CHOOSE d \in 0..9 : ToString(d) = c
RECURSIVE ParseDigits(_, _, _)
ParseDigits(s, i, n) ==
    IF i > Len(s) \/ CharAt(s, i) \notin DigitChars THEN n
    ELSE ParseDigits(s, i + 1, 10 * n + DigitValue(CharAt(s, i)))
ParseInt(s) ==
    IF Len(s) = 0 \/ CharAt(s, 1) \notin DigitChars THEN NaN ELSE Num(ParseDigits(s, 1, 0))

\* s.trim() === ""
IsBlank(s) == \A i \in 1..Len(s) : CharAt(s, i) = " "

\* transformSchema.safeParse(req.body).success
TransformSchemaAccepts(body) ==
    /\ IsObject(body)
    /\ IsString(Get(body, "schema")) /\ Len(Get(body, "schema").s) >= 1
    /\ Get(body, "includeExtensions").t = "boolean"
    /\ Get(body, "normalizeTables").t = "boolean"
    /\ Get(body, "apiKey").t \in {"undefined", "string"}

\* MemStorage.getProfile: the profile with that id, NoProfile for undefined.
GetProfileOfAnyId(id) ==
    IF \E i \in DOMAIN profiles : profiles[i].id = id
    THEN profiles[CHOOSE i \in DOMAIN profiles :
                     /\ profiles[i].id = id
                     /\ \A j \in DOMAIN profiles : profiles[j].id = id => i <= j]
    ELSE [id |-> id, implementationGuideId |-> 1, resourceType |-> "Patient",
          name |-> "US Core Patient Profile", url |-> PatientUrl]
GetProfile(id) ==
    IF \E i \in DOMAIN profiles : profiles[i].id = id
    THEN profiles[CHOOSE i \in DOMAIN profiles :
                     /\ profiles[i].id = id
                     /\ \A j \in DOMAIN profiles : profiles[j].id = id => i <= j]
    ELSE NoProfile

\* MemStorage.getTransformation: the stored record with that id, if any.
GetTransformation(id) ==
    {transformations[i] : i \in {j \in DOMAIN transformations : transformations[j].id = id}}

\* The record MemStorage.createTransformation builds from its argument (the
\* creation time is not modelled); platformSql is not a field of it.
NewTransformation(insertTransformation) ==
    [id |-> nextTransformationId,
     profileId |-> insertTransformation.profileId,
     schema |-> insertTransformation.schema,
     includeExtensions |-> insertTransformation.includeExtensions,
     normalizeTables |-> insertTransformation.normalizeTables,
     viewDefinition |-> insertTransformation.viewDefinition,
     sqlQuery |-> insertTransformation.sqlQuery]

\* Boolean.prototype.toString
BoolToString(v) == IF v.b THEN "true" ELSE "false"

\* What transformProfileToViewDefinition hands back to the handler: it throws,
\* or returns a truthy viewDefinition with a sqlQuery and one SQL text per
\* dialect.
PlatformSql(sqlQuery) ==
    [databricks |-> sqlQuery, bigquery |-> sqlQuery, snowflake |-> sqlQuery,
     postgres |-> sqlQuery, sqlserver |-> sqlQuery]
AnswerDocs ==
    {TopLevelDoc(Str("ViewDefinition"), Str("Patient"), GoodSelect, GoodWhere),
     TopLevelDoc(Str("ViewDefinition"), Str("Patient"), Arr(<<>>), GoodWhere),
     TopLevelDoc(Str("ViewDefinition"), Str("Patient"),
                 Arr(<<Block(<<ColId, ColIdAgain>>)>>), GoodWhere),
     TopLevelDoc(Str("ViewDefinition"), Str("Patient"), GoodSelect, Undefined),
     DefinitionDoc(Undefined, Str("Patient"), Arr(<<FlatId, FlatGender>>), Undefined),
     TopLevelDoc(Str("ViewDefinition"), Str("Patient"), GoodSelect, Arr(<<Null>>))}
SqlTexts == {"SELECT id, gender FROM Patient"}
TransformationResults ==
    {[threw |-> TRUE]}
    \cup {[threw |-> FALSE, viewDefinition |-> d, sqlQuery |-> q, platformSql |-> PlatformSql(q)] :
            d \in AnswerDocs, q \in SqlTexts}

\* The requests of the model.
IdParams == {"1", "2", "99", "abc"}
TransformBody(schema, apiKey) ==
    SetProp(Obj([schema |-> schema, includeExtensions |-> Bool(TRUE),
                 normalizeTables |-> Bool(FALSE)]), "apiKey", apiKey)
RequestBodies ==
    {TransformBody(Str("analytics"), Undefined),
     TransformBody(Str("analytics"), Str("sk-ant-user")),
     TransformBody(Str(""), Undefined),
     Obj([schema |-> Str("analytics")])}
EnvApiKeys == {Undefined, Str(""), Str(" "), Str("sk-ant-configured")}

ErrorResponse(status, message) == [status |-> status, message |-> message]

InitServer ==
    /\ transformations = <<>>
    /\ nextTransformationId = 1
    /\ envApiKey \in EnvApiKeys
    /\ response = NoResponse
    /\ received = {}
    /\ ValidatorIdle /\ NormalizerIdle /\ BuilderIdle /\ PreviewIdle /\ StorageSeeded /\ WizardIdle /\ PathIdle /\ RecoveryIdle

\* POST /api/profiles/:id/transform, from the request to the response: the
\* early returns, the call of the model, the normalization, the save, the
\* catch and the finally block.  The validator is not called on any path.
Transform(idParam, body, result) ==
    /\ nextTransformationId <= MaxTransformations
    /\ LET originalApiKey == envApiKey
           id == ParseInt(idParam)
           p == IF id = NaN THEN NoProfile ELSE GetProfile(id.n)
           norm == NormalizeViewDefinition(result.viewDefinition, p)
           created == NewTransformation(
                        [profileId |-> p.id,
                         schema |-> Get(body, "schema").s,
                         includeExtensions |-> BoolToString(Get(body, "includeExtensions")),
                         normalizeTables |-> BoolToString(Get(body, "normalizeTables")),
                         viewDefinition |-> norm.doc,
                         sqlQuery |-> result.sqlQuery,
                         platformSql |-> result.platformSql])
           Reply(r) == /\ response' = r
                       /\ UNCHANGED <<transformations, nextTransformationId, received>>
       IN /\ envApiKey' = IF Truthy(originalApiKey) THEN originalApiKey ELSE Undefined
          /\ IF ~TransformSchemaAccepts(body)
             THEN Reply(ErrorResponse(400, "Invalid request data"))
             ELSE IF ~Truthy(originalApiKey) \/ IsBlank(originalApiKey.s)
             THEN Reply(ErrorResponse(500,
                                      "API key not configured for transformation service"))
             ELSE IF id = NaN
             THEN Reply(ErrorResponse(400, "Invalid profile ID"))
             ELSE IF p = NoProfile
             THEN Reply(ErrorResponse(404, "Profile not found"))
             ELSE IF result.threw \/ norm.threw
             THEN Reply(ErrorResponse(500, "Failed to transform profile"))
             ELSE /\ transformations' = Append(transformations, created)
                  /\ nextTransformationId' = nextTransformationId + 1
                  /\ response' = [status |-> 200,
                                  transformationId |-> created.id,
                                  viewDefinition |-> norm.doc,
                                  sqlQuery |-> result.sqlQuery,
                                  platformSql |-> result.platformSql]
                  /\ received' = received \cup {response'}
    /\ UNCHANGED <<validatorVars, normalizerVars, builderVars, previewVars, storageVars, wizardVars, pathVars>>

\* GET /api/transformations/:id
FetchTransformation(idParam) ==
    /\ LET id == ParseInt(idParam) IN
       response' = IF id = NaN THEN ErrorResponse(400, "Invalid transformation ID")
                   ELSE IF GetTransformation(id.n) = {}
                   THEN ErrorResponse(404, "Transformation not found")
                   ELSE [status |-> 200,
                         transformation |-> CHOOSE t \in GetTransformation(id.n) : TRUE]
    /\ UNCHANGED <<transformations, nextTransformationId, envApiKey, received,
                   validatorVars, normalizerVars, builderVars, previewVars, storageVars, wizardVars, pathVars>>

Next ==
    \/ \E idParam \in IdParams, body \in RequestBodies, result \in TransformationResults :
          Transform(idParam, body, result) /\ UNCHANGED recoveryVars
    \/ \E idParam \in IdParams : FetchTransformation(idParam) /\ UNCHANGED recoveryVars

Spec == InitServer /\ [][Next]_vars

(***************************************************************************)
(* The interactive builder: InteractiveBuilder (setup, build and view      *)
(* steps), the ColumnBuilder it mounts in the build step and the           *)
(* ViewDefinitionViewer it mounts in the view step.  A component that is   *)
(* not mounted has no state: its variables hold their initial values.      *)
(***************************************************************************)
LowerAlphabet == "abcdefghijklmnopqrstuvwxyz"
UpperAlphabet == "ABCDEFGHIJKLMNOPQRSTUVWXYZ"
ToLowerChar(c) ==
    IF c \in UpperChars
    THEN CharAt(LowerAlphabet, CHOOSE i \in 1..Len(UpperAlphabet) : CharAt(UpperAlphabet, i) = c)
    ELSE c
\* s.toLowerCase()
RECURSIVE ToLowerCase(_)
ToLowerCase(s) == IF s = "" THEN "" ELSE ToLowerChar(CharAt(s, 1)) \o ToLowerCase(Tail(s))
\* s.replace(/[^a-z0-9]/g, '-')
RECURSIVE DashNonAlphanumerics(_)
DashNonAlphanumerics(s) ==
    IF s = "" THEN ""
    ELSE (IF CharAt(s, 1) \in LowerChars \cup DigitChars THEN CharAt(s, 1) ELSE "-")
         \o DashNonAlphanumerics(Tail(s))
\* array.join(sep): an undefined or null element contributes the empty string
RECURSIVE Join(_, _)
Join(a, sep) ==
    IF a = <<>> THEN ""
    ELSE (IF Nullish(a[1]) THEN "" ELSE TemplateString(a[1]))
         \o (IF Len(a) > 1 THEN sep \o Join(Tail(a), sep) ELSE "")
RECURSIVE Flatten(_)
Flatten(seqs) == IF seqs = <<>> THEN <<>> ELSE seqs[1] \o Flatten(Tail(seqs))

\* The fields of a ColumnDefinition that generateViewDefinition reads while the
\* nested-element and join options are off; an unset flag is FALSE.
Column(id, name, path, description, type) ==
    [id |-> id, name |-> name, path |-> path, description |-> description, type |-> type,
     forEach |-> FALSE, forEachOrNull |-> FALSE]

\* The columns, name and where clause the mount effect of ColumnBuilder sets.
DefaultColumns(p) ==
    <<Column("id", "id", "getResourceKey()", "Resource identifier", "id"),
      Column("resource_type", "resource_type", "resourceType", "FHIR resource type", "code")>>
    \o (IF p.resourceType = "Patient"
        THEN <<Column("active", "active", "active",
                      "Whether this patient record is in active use", "boolean"),
               Column("family_name", "family_name",
                      "name.where(use = 'official').family.first()",
                      "Family name (surname)", "string"),
               Column("given_name", "given_name",
                      "name.where(use = 'official').given.first()",
                      "Given name (first name)", "string"),
               Column("birth_date", "birth_date", "birthDate", "Date of birth", "date"),
               Column("gender", "gender", "gender", "Administrative gender", "code")>>
        ELSE IF p.resourceType = "Observation"
        THEN <<Column("status", "status", "status", "Observation status", "code"),
               Column("code", "code",
                      "code.coding.where(system = 'http://loinc.org').code.first()",
                      "LOINC code for the observation", "code"),
               Column("value_quantity", "value_quantity", "value.ofType(Quantity).value",
                      "Numerical value", "decimal"),
               Column("value_unit", "value_unit", "value.ofType(Quantity).unit",
                      "Unit of measurement", "string")>>
        ELSE <<>>)
DefaultViewName(p) == p.resourceType \o "View"
DefaultViewTitle(p) == p.name \o " View"
DefaultDescription(p) == "SQL-on-FHIR view for " \o p.name
DefaultWhereClauses(p) ==
    <<[id |-> "profile_filter",
       path |-> "meta.profile.where($this = '" \o p.url \o "').exists()",
       description |-> "Filter resources that conform to this profile"]>>

\* ColumnBuilder mounted with a profile / not mounted.
ColumnBuilderMounted(p) ==
    /\ columns' = DefaultColumns(p)
    /\ whereClauses' = DefaultWhereClauses(p)
    /\ viewName' = DefaultViewName(p)
    /\ validationResult' = NotRun
ColumnBuilderUnmounted ==
    /\ columns' = <<>>
    /\ whereClauses' = <<>>
    /\ viewName' = ""
    /\ validationResult' = NotRun

\* The document generateViewDefinition builds from the state of the builder.
HasNameAndPath(col) == col.name # "" /\ col.path # ""
HasPath(clause) == clause.path # ""
SelectItem(col) ==
    LET item == Obj([column |-> Arr(<<Obj([name |-> Str(col.name),
                                           path |-> Str(col.path),
                                           description |-> Str(col.description),
                                           type |-> Str(IF col.type # "" THEN col.type
                                                        ELSE "string")])>>)])
        withForEach == IF col.forEach THEN SetProp(item, "forEach", Str(col.path)) ELSE item
    IN IF col.forEachOrNull THEN SetProp(withForEach, "forEachOrNull", Str(col.path))
       ELSE withForEach
WhereItem(clause) ==
    Obj([expression |-> Str(clause.path), description |-> Str(clause.description)])
BuiltViewDefinition ==
    LET named == SelectSeq(columns, HasNameAndPath)
        filters == SelectSeq(whereClauses, HasPath)
    IN Obj([resourceType |-> Str("ViewDefinition"),
            id |-> Str(DashNonAlphanumerics(ToLowerCase(viewName))),
            name |-> Str(viewName),
            title |-> Str(DefaultViewTitle(selectedProfile)),
            status |-> Str("draft"),
            description |-> Str(DefaultDescription(selectedProfile)),
            resource |-> Str(selectedProfile.resourceType),
            select |-> Arr([i \in DOMAIN named |-> SelectItem(named[i])]),
            where |-> Arr([i \in DOMAIN filters |-> WhereItem(filters[i])]),
            extension |-> Arr(<<>>)])

\* ViewDefinitionViewer.generateSQL for the viewDefinition it is given.
ColumnTexts(sel) ==
    LET column == Get(sel, "column") IN
    IF Nullish(column) THEN <<>>
    ELSE [j \in DOMAIN column.a |->
            Str(TemplateString(Get(column.a[j], "path")) \o " AS "
                \o TemplateString(Get(column.a[j], "name")))]
generateSQL(vd) ==
    LET resource == Get(vd, "resource")
        select == Get(vd, "select")
        where == Get(vd, "where")
        name == TemplateString(Get(vd, "name"))
        tableName == IF Nullish(resource) \/ ToLowerCase(resource.s) = "" THEN "resource"
                     ELSE ToLowerCase(resource.s)
        cols == IF Nullish(select) THEN <<>>
                ELSE Flatten([i \in DOMAIN select.a |-> ColumnTexts(select.a[i])])
        whereConditions == IF Nullish(where) THEN <<>>
                           ELSE [i \in DOMAIN where.a |-> Get(where.a[i], "path")]
    IN "-- Generated SQL for ViewDefinition: " \o name \o "\n"
       \o "CREATE VIEW " \o name \o " AS\n"
       \o "SELECT\n  " \o Join(cols, ",\n  ") \o "\n"
       \o "FROM " \o tableName \o "\n"
       \o (IF Len(whereConditions) > 0
           THEN "WHERE\n  " \o Join(whereConditions, "\n  AND ") \o "\n" ELSE "")

\* The edits of the model.
SelectableProfiles == Range(SeededProfiles)
ColumnUpdates == {[forEach |-> TRUE], [forEachOrNull |-> TRUE], [name |-> "id"], [name |-> ""]}
WhereClauseUpdates == {[path |-> ""], [path |-> "active = true"]}
ViewNames == {"", "Patient View"}

InitBuilder ==
    /\ step = "setup"
    /\ selectedGuide = NoGuide
    /\ selectedResourceType = ""
    /\ selectedProfile = NoProfile
    /\ executionResults = Null
    /\ pending = {}
    /\ viewDefinition = Null
    /\ columns = <<>>
    /\ whereClauses = <<>>
    /\ viewName = ""
    /\ validationResult = NotRun
    /\ viewerSql = Null
    /\ edits = 0
    /\ ValidatorIdle /\ NormalizerIdle /\ ServerIdle /\ PreviewIdle /\ StorageSeeded /\ WizardIdle /\ PathIdle /\ RecoveryIdle

\* MemStorage.getImplementationGuide, getProfiles and getProfilesByResourceType
GetImplementationGuide(id) ==
    IF \E i \in DOMAIN implementationGuides : implementationGuides[i].id = id
    THEN implementationGuides[CHOOSE i \in DOMAIN implementationGuides :
                                 implementationGuides[i].id = id]
    ELSE NoGuide
InGuide(implementationGuideId, p) == p.implementationGuideId = implementationGuideId
GetProfiles(implementationGuideId) ==
    SelectSeq(profiles, LAMBDA p : InGuide(implementationGuideId, p))
InGuideOfType(implementationGuideId, resourceType, p) ==
    p.implementationGuideId = implementationGuideId /\ p.resourceType = resourceType
GetProfilesByResourceType(implementationGuideId, resourceType) ==
    SelectSeq(profiles, LAMBDA p : InGuideOfType(implementationGuideId, resourceType, p))
\* GET /api/implementation-guides/:id/resource-types
ResourceTypesOf(implementationGuideId) ==
    IF GetImplementationGuide(implementationGuideId) = NoGuide THEN {}
    ELSE {p.resourceType : p \in Range(GetProfiles(implementationGuideId))}
\* GET /api/implementation-guides/:id/resource-types/:type/profiles
ProfilesOf(implementationGuideId, resourceType) ==
    IF GetImplementationGuide(implementationGuideId) = NoGuide THEN <<>>
    ELSE GetProfilesByResourceType(implementationGuideId, resourceType)
\* The data of the two queries of InteractiveBuilder, keyed by the selected
\* guide and resource type and enabled only when these are set.
ResourceTypesQuery ==
    IF selectedGuide = NoGuide THEN {} ELSE ResourceTypesOf(selectedGuide.id)
ProfilesQuery ==
    IF selectedGuide = NoGuide \/ selectedResourceType = "" THEN <<>>
    ELSE ProfilesOf(selectedGuide.id, selectedResourceType)

\* InteractiveBuilder.handleGuideSelect
HandleGuideSelect(guide) ==
    /\ step = "setup"
    /\ selectedGuide' = guide
    /\ selectedResourceType' = ""
    /\ selectedProfile' = NoProfile
    /\ UNCHANGED <<step, viewDefinition, viewerSql, executionVars, columnBuilderVars, edits,
                   validatorVars, normalizerVars, serverVars,
                   previewVars, storageVars, wizardVars, pathVars, recoveryVars>>

\* InteractiveBuilder.handleResourceTypeSelect; the select is rendered when a
\* guide is selected and offers the resource types of that guide.
HandleResourceTypeSelect(resourceType) ==
    /\ step = "setup"
    /\ selectedGuide # NoGuide
    /\ resourceType \in ResourceTypesQuery
    /\ selectedResourceType' = resourceType
    /\ selectedProfile' = NoProfile
    /\ UNCHANGED <<step, selectedGuide, viewDefinition, viewerSql, executionVars,
                   columnBuilderVars, edits, validatorVars, normalizerVars, serverVars,
                   previewVars, storageVars, wizardVars, pathVars, recoveryVars>>

\* InteractiveBuilder.handleProfileSelect: the profile found, or null.
HandleProfileSelectInAnyStep(p) ==
    /\ selectedResourceType # ""
    /\ p \in Range(ProfilesQuery) \cup {NoProfile}
    /\ selectedProfile' = p
    /\ UNCHANGED <<step, viewDefinition, viewerSql, selectionVars, executionVars,
                   columnBuilderVars, edits, validatorVars, normalizerVars, serverVars,
                   previewVars, storageVars, wizardVars, pathVars, recoveryVars>>
HandleProfileSelect(p) ==
    /\ step = "setup"
    /\ selectedResourceType # ""
    /\ p \in Range(ProfilesQuery) \cup {NoProfile}
    /\ selectedProfile' = p
    /\ UNCHANGED <<step, viewDefinition, viewerSql, selectionVars, executionVars,
                   columnBuilderVars, edits,
                   validatorVars, normalizerVars, serverVars,
                   previewVars, storageVars, wizardVars, pathVars, recoveryVars>>

\* InteractiveBuilder.handleStartBuilding; the build step mounts ColumnBuilder.
HandleStartBuilding ==
    /\ step = "setup"
    /\ selectedProfile # NoProfile
    /\ step' = "build"
    /\ ColumnBuilderMounted(selectedProfile)
    /\ UNCHANGED <<selectedProfile, viewDefinition, viewerSql, edits,
                   selectionVars, executionVars,
                   validatorVars, normalizerVars, serverVars,
                   previewVars, storageVars, wizardVars, pathVars, recoveryVars>>

\* An edit leaves everything but the edited state of ColumnBuilder alone.
Edit ==
    /\ step = "build"
    /\ selectedProfile # NoProfile
    /\ edits < MaxEdits
    /\ edits' = edits + 1
    /\ UNCHANGED <<pageVars, validationResult, validatorVars, normalizerVars, serverVars,
                   previewVars, storageVars, wizardVars, pathVars, recoveryVars>>

\* ColumnBuilder.addColumn; Date.now() of the id is read off the edit count.
AddColumn ==
    /\ Edit
    /\ columns' = Append(columns, Column("column_" \o ToString(edits), "", "", "", "string"))
    /\ UNCHANGED <<whereClauses, viewName>>

\* ColumnBuilder.updateColumn (the FHIRPath message of the column aside)
UpdateColumn(id, updates) ==
    /\ Edit
    /\ columns' = [i \in DOMAIN columns |->
                     IF columns[i].id = id THEN updates @@ columns[i] ELSE columns[i]]
    /\ UNCHANGED <<whereClauses, viewName>>

\* ColumnBuilder.removeColumn
KeepsColumn(id, col) == col.id # id
RemoveColumn(id) ==
    /\ Edit
    /\ columns' = SelectSeq(columns, LAMBDA col : KeepsColumn(id, col))
    /\ UNCHANGED <<whereClauses, viewName>>

\* ColumnBuilder.addWhereClause
AddWhereClause ==
    /\ Edit
    /\ whereClauses' = Append(whereClauses,
                              [id |-> "where_" \o ToString(edits), path |-> "",
                               description |-> ""])
    /\ UNCHANGED <<columns, viewName>>

\* ColumnBuilder.updateWhereClause
UpdateWhereClause(id, updates) ==
    /\ Edit
    /\ whereClauses' = [i \in DOMAIN whereClauses |->
                          IF whereClauses[i].id = id THEN updates @@ whereClauses[i]
                          ELSE whereClauses[i]]
    /\ UNCHANGED <<columns, viewName>>

\* ColumnBuilder.removeWhereClause
RemoveWhereClause(id) ==
    /\ Edit
    /\ whereClauses' = SelectSeq(whereClauses, LAMBDA clause : KeepsColumn(id, clause))
    /\ UNCHANGED <<columns, viewName>>

\* The view name input of ColumnBuilder.
SetViewName(name) ==
    /\ Edit
    /\ viewName' = name
    /\ UNCHANGED <<columns, whereClauses>>

\* The Generate button: ColumnBuilder.generateViewDefinition and, through
\* onGenerateViewDefinition, InteractiveBuilder.handleGenerateViewDefinition;
\* the view step then renders ViewDefinitionViewer, which calls generateSQL().
GenerateViewDefinition ==
    /\ step = "build"
    /\ selectedProfile # NoProfile
    /\ SelectSeq(columns, HasNameAndPath) # <<>> /\ viewName # ""
    /\ \E generated \in {BuiltViewDefinition} :
       \E result \in {validateViewDefinition(generated)} :
          IF result.threw
          THEN UNCHANGED <<pageVars, columnBuilderVars>>
          ELSE IF result.isValid
          THEN /\ viewDefinition' = generated
               /\ step' = "view"
               /\ viewerSql' = Str(generateSQL(generated))
               /\ ColumnBuilderUnmounted
               /\ UNCHANGED <<selectedProfile, selectionVars, executionVars>>
          ELSE /\ validationResult' = result
               /\ UNCHANGED <<pageVars, columns, whereClauses, viewName>>
    /\ UNCHANGED <<edits, validatorVars, normalizerVars, serverVars,
                   previewVars, storageVars, wizardVars, pathVars, recoveryVars>>

\* InteractiveBuilder.handleBackToBuild
HandleBackToBuild ==
    /\ step = "view"
    /\ step' = "build"
    /\ viewerSql' = Null
    /\ executionResults' = Null
    /\ ColumnBuilderMounted(selectedProfile)
    /\ UNCHANGED <<selectedProfile, viewDefinition, edits, selectionVars, pending,
                   validatorVars, normalizerVars, serverVars,
                   previewVars, storageVars, wizardVars, pathVars, recoveryVars>>

\* InteractiveBuilder.handleBackToSetup
HandleBackToSetup ==
    /\ step \in {"build", "view"}
    /\ step' = "setup"
    /\ viewDefinition' = Null
    /\ viewerSql' = Null
    /\ executionResults' = Null
    /\ ColumnBuilderUnmounted
    /\ UNCHANGED <<selectedProfile, edits, selectionVars, pending, validatorVars, normalizerVars, serverVars,
                   previewVars, storageVars, wizardVars, pathVars, recoveryVars>>

\* InteractiveBuilder.handleExecuteViewDefinition up to its await: the Execute
\* button of ViewDefinitionViewer posts the view definition it shows.
MaxPending == 1     \* execution requests in flight at a time
ExecutionRequest(viewDef, p) ==
    [viewDefinition |-> viewDef,
     resourceType |-> IF p = NoProfile THEN "Patient" ELSE p.resourceType]
HandleExecuteViewDefinition ==
    /\ step = "view"
    /\ Cardinality(pending) < MaxPending
    /\ pending' = pending \cup {ExecutionRequest(viewDefinition, selectedProfile)}
    /\ UNCHANGED <<step, selectedProfile, viewDefinition, viewerSql, selectionVars,
                   executionResults, columnBuilderVars, edits,
                   validatorVars, normalizerVars, serverVars,
                   previewVars, storageVars, wizardVars, pathVars, recoveryVars>>

\* handleExecuteViewDefinition after its await: the answer to a request, or
\* the error caught, becomes the execution results, whatever the page shows
\* by then.
ExecutionAnswer(request, success) == [success |-> success, request |-> request]
ExecutionResponds(request, success) ==
    /\ request \in pending
    /\ pending' = pending \ {request}
    /\ executionResults' = ExecutionAnswer(request, success)
    /\ UNCHANGED <<step, selectedProfile, viewDefinition, viewerSql, selectionVars,
                   columnBuilderVars, edits,
                   validatorVars, normalizerVars, serverVars,
                   previewVars, storageVars, wizardVars, pathVars, recoveryVars>>

NextBuilder ==
    \/ \E guide \in Range(implementationGuides) \cup {NoGuide} : HandleGuideSelect(guide)
    \/ \E resourceType \in ResourceTypesQuery : HandleResourceTypeSelect(resourceType)
    \/ \E p \in SelectableProfiles \cup {NoProfile} : HandleProfileSelect(p)
    \/ HandleStartBuilding
    \/ AddColumn
    \/ \E i \in DOMAIN columns, updates \in ColumnUpdates : UpdateColumn(columns[i].id, updates)
    \/ \E i \in DOMAIN columns : RemoveColumn(columns[i].id)
    \/ AddWhereClause
    \/ \E i \in DOMAIN whereClauses, updates \in WhereClauseUpdates :
          UpdateWhereClause(whereClauses[i].id, updates)
    \/ \E i \in DOMAIN whereClauses : RemoveWhereClause(whereClauses[i].id)
    \/ \E name \in ViewNames : SetViewName(name)
    \/ GenerateViewDefinition
    \/ HandleBackToBuild
    \/ HandleBackToSetup

SpecBuilder == InitBuilder /\ [][NextBuilder]_vars

\* The builder with the Execute button of the view step; of the edits of the
\* column builder only the view name is kept.
NextExecution ==
    \/ \E guide \in Range(implementationGuides) : HandleGuideSelect(guide)
    \/ \E resourceType \in ResourceTypesQuery : HandleResourceTypeSelect(resourceType)
    \/ \E p \in SelectableProfiles : HandleProfileSelect(p)
    \/ HandleStartBuilding
    \/ \E name \in ViewNames : SetViewName(name)
    \/ GenerateViewDefinition
    \/ HandleBackToBuild
    \/ HandleBackToSetup
    \/ HandleExecuteViewDefinition
    \/ \E request \in pending, success \in BOOLEAN : ExecutionResponds(request, success)

SpecExecution == InitBuilder /\ [][NextExecution]_vars

(***************************************************************************)
(* What the properties of the whole pipeline speak about.                  *)
(***************************************************************************)
ZeroErrors(d) ==
    LET v == validateViewDefinition(d) IN ~v.threw /\ v.errors = <<>>

\* C1: SQL is stored, returned or rendered for a view document only if the
\* validation of that document reports zero errors: every stored
\* transformation, every successful response of the server that carries SQL
\* and every document the viewer renders SQL for validates without errors.
C1_SqlOnlyForValidDocuments ==
    /\ \A i \in DOMAIN transformations : ZeroErrors(transformations[i].viewDefinition)
    /\ (response.status = 200 /\ "sqlQuery" \in DOMAIN response)
          => ZeroErrors(response.viewDefinition)
    /\ (response.status = 200 /\ "transformation" \in DOMAIN response)
          => ZeroErrors(response.transformation.viewDefinition)
    /\ viewerSql # Null => ZeroErrors(viewDefinition)

\* C4: a document with a select block that sets both forEach and
\* forEachOrNull is invalid - its validation reports an error - and no such
\* document passes the gate of the column builder to become the view
\* definition of the page.
C4_BothIterationsBlocked ==
    /\ (Returned(validation)
        /\ \E i \in DOMAIN SelectOf(doc) : HasBothIterations(SelectOf(doc)[i]))
          => ~validation.isValid
    /\ \A i \in DOMAIN SelectOf(viewDefinition) : ~HasBothIterations(SelectOf(viewDefinition)[i])


(***************************************************************************)
(* String operations of JavaScript used by the SQL generators and by the   *)
(* recovery of the model's response.                                       *)
(***************************************************************************)
WhiteSpaceChars == {" ", "\n", "\t", "\r"}

\* s.startsWith(sub, i) with positions counted from 1
StartsWithAt(s, i, sub) ==
    i >= 1 /\ i + Len(sub) - 1 <= Len(s) /\ SubSeq(s, i, i + Len(sub) - 1) = sub

\* s.indexOf(sub, i) with positions counted from 1; 0 when sub does not occur.
IndexOfFrom(s, sub, i) ==
    LET at == {j \in i..(Len(s) - Len(sub) + 1) : SubSeq(s, j, j + Len(sub) - 1) = sub}
    IN IF at = {} THEN 0 ELSE CHOOSE j \in at : \A k \in at : j <= k

\* s.lastIndexOf(sub), 0 when sub does not occur.
LastIndexOf(s, sub) ==
    LET at == {j \in 1..(Len(s) - Len(sub) + 1) : SubSeq(s, j, j + Len(sub) - 1) = sub}
    IN IF at = {} THEN 0 ELSE CHOOSE j \in at : \A k \in at : j >= k

\* s.split(sep) for a non-empty separator
RECURSIVE Split(_, _)
Split(s, sep) ==
    LET j == IndexOfFrom(s, sep, 1) IN
    IF j = 0 THEN <<s>>
    ELSE <<SubSeq(s, 1, j - 1)>> \o Split(SubSeq(s, j + Len(sep), Len(s)), sep)

\* s.replace(/old/g, new) for a literal, non-empty old
RECURSIVE ReplaceAll(_, _, _)
ReplaceAll(s, old, new) ==
    LET j == IndexOfFrom(s, old, 1) IN
    IF j = 0 THEN s
    ELSE SubSeq(s, 1, j - 1) \o new \o ReplaceAll(SubSeq(s, j + Len(old), Len(s)), old, new)

\* s.trim()
RECURSIVE TrimStart(_)
TrimStart(s) ==
    IF s # "" /\ CharAt(s, 1) \in WhiteSpaceChars THEN TrimStart(Tail(s)) ELSE s
RECURSIVE TrimEnd(_)
TrimEnd(s) ==
    IF s # "" /\ CharAt(s, Len(s)) \in WhiteSpaceChars
    THEN TrimEnd(SubSeq(s, 1, Len(s) - 1)) ELSE s
Trim(s) == TrimEnd(TrimStart(s))

\* strings.join(sep)
RECURSIVE JoinText(_, _)
JoinText(a, sep) ==
    IF a = <<>> THEN ""
    ELSE a[1] \o (IF Len(a) > 1 THEN sep \o JoinText(Tail(a), sep) ELSE "")

\* the number of occurrences of a character: (s.match(/c/g) || []).length
CountChar(s, c) == Cardinality({i \in 1..Len(s) : CharAt(s, i) = c})

\* the texts a[lo], ..., a[hi] in one text
RECURSIVE ConcatRange(_, _, _)
ConcatRange(a, lo, hi) ==
    IF lo > hi THEN ""
    ELSE IF lo = hi THEN a[lo]
    ELSE LET mid == (lo + hi) \div 2
         IN ConcatRange(a, lo, mid) \o ConcatRange(a, mid + 1, hi)

\* c repeated n times
RECURSIVE Repeat(_, _)
Repeat(c, n) == IF n <= 0 THEN "" ELSE c \o Repeat(c, n - 1)

(***************************************************************************)
(* JSON.parse.  A parse step yields whether it succeeded, the value and    *)
(* the position after it; a failure is what makes JSON.parse throw a       *)
(* SyntaxError.  Numbers of the model are integers without exponent.       *)
(* The(S) names the element of a one-element set: it binds the result of   *)
(* a parse step once, where the steps after it read it several times.      *)
(***************************************************************************)
The(S) == CHOOSE x \in S : TRUE
Least(S) == CHOOSE j \in S : \A k \in S : j <= k
Backslash == "\\"
Quote == "\""
ParseFailure == [ok |-> FALSE]
Parsed(v, next) == [ok |-> TRUE, v |-> v, next |-> next]

\* the first position from i on that holds no white space (Len(s) + 1 at the end)
SkipWhiteSpace(s, i) ==
    LET stop == {j \in i..Len(s) : CharAt(s, j) \notin WhiteSpaceChars}
    IN IF stop = {} THEN Len(s) + 1 ELSE Least(stop)

\* the number of backslashes that stand directly in front of position j
BackslashesBefore(s, j) ==
    LET runs == {k \in 0..(j - 1) : \A m \in 1..k : CharAt(s, j - m) = Backslash}
    IN CHOOSE k \in runs : \A n \in runs : k >= n

\* the position of the quote that ends the string literal opened at i, or 0
ClosingQuote(s, i) ==
    LET ends == {j \in (i + 1)..Len(s) :
                    CharAt(s, j) = Quote /\ BackslashesBefore(s, j) % 2 = 0}
    IN IF ends = {} THEN 0 ELSE Least(ends)

\* The characters of a string literal: an escape stands for its character;
\* Unescaped is undefined (ParseFailure) for an escape JSON does not have.
EscapedChars == [n |-> "\n", t |-> "\t", r |-> "\r"]
RECURSIVE Unescape(_)
Unescape(raw) ==
    LET at == IndexOfFrom(raw, Backslash, 1)
        c == CharAt(raw, at + 1)
        rest == Unescape(SubSeq(raw, at + 2, Len(raw)))
        char == IF c \in {Quote, Backslash, "/"} THEN c ELSE EscapedChars[c]
    IN IF at = 0 THEN [ok |-> TRUE, s |-> raw]
       ELSE IF at = Len(raw) \/ c \notin {Quote, Backslash, "/", "n", "t", "r"} THEN ParseFailure
       ELSE IF ~rest.ok THEN ParseFailure
       ELSE [ok |-> TRUE, s |-> SubSeq(raw, 1, at - 1) \o char \o rest.s]

ParseString(s, i) ==
    LET close == ClosingQuote(s, i)
        raw == SubSeq(s, i + 1, close - 1)
    IN IF i > Len(s) \/ CharAt(s, i) # Quote \/ close = 0 THEN ParseFailure
       ELSE IF \E j \in 1..Len(raw) : CharAt(raw, j) \in {"\n", "\t", "\r"} THEN ParseFailure
       ELSE The({IF u.ok THEN Parsed(Str(u.s), close + 1) ELSE ParseFailure :
                    u \in {Unescape(raw)}})

ParseNumber(s, i) ==
    LET from == IF CharAt(s, i) = "-" THEN i + 1 ELSE i
        stop == {j \in from..Len(s) : CharAt(s, j) \notin DigitChars}
        end == IF stop = {} THEN Len(s) + 1 ELSE Least(stop)
        digits == ParseDigits(SubSeq(s, from, end - 1), 1, 0)
    IN IF end = from \/ (end - from > 1 /\ CharAt(s, from) = "0") THEN ParseFailure
       ELSE IF end <= Len(s) /\ CharAt(s, end) \in {".", "e", "E"} THEN ParseFailure
       ELSE Parsed(Num(IF from = i THEN digits ELSE 0 - digits), end)

ParseLiteral(s, i) ==
    IF StartsWithAt(s, i, "true") THEN Parsed(Bool(TRUE), i + 4)
    ELSE IF StartsWithAt(s, i, "false") THEN Parsed(Bool(FALSE), i + 5)
    ELSE IF StartsWithAt(s, i, "null") THEN Parsed(Null, i + 4)
    ELSE ParseFailure

RECURSIVE ParseValue(_, _)
RECURSIVE ParseElements(_, _, _)
RECURSIVE ParseMembers(_, _, _)

\* the elements of an array from position i on, after the elements of acc
ParseElements(s, i, acc) ==
    The({IF ~e.ok THEN ParseFailure
         ELSE LET after == SkipWhiteSpace(s, e.next) IN
              IF after > Len(s) THEN ParseFailure
              ELSE IF CharAt(s, after) = "]" THEN Parsed(Arr(Append(acc, e.v)), after + 1)
              ELSE IF CharAt(s, after) = "," THEN ParseElements(s, after + 1, Append(acc, e.v))
              ELSE ParseFailure :
            e \in {ParseValue(s, i)}})

\* the members of an object from position i on, after the members of acc;
\* a key that comes again replaces the earlier member
ParseMembers(s, i, acc) ==
    The({IF ~k.ok THEN ParseFailure
         ELSE LET colon == SkipWhiteSpace(s, k.next) IN
              IF colon > Len(s) \/ CharAt(s, colon) # ":" THEN ParseFailure
              ELSE The({IF ~m.ok THEN ParseFailure
                        ELSE LET after == SkipWhiteSpace(s, m.next)
                                 members == (k.v.s :> m.v) @@ acc
                             IN IF after > Len(s) THEN ParseFailure
                                ELSE IF CharAt(s, after) = "}"
                                THEN Parsed(Obj(members), after + 1)
                                ELSE IF CharAt(s, after) = ","
                                THEN ParseMembers(s, after + 1, members)
                                ELSE ParseFailure :
                           m \in {ParseValue(s, colon + 1)}}) :
            k \in {ParseString(s, SkipWhiteSpace(s, i))}})

ParseValue(s, i) ==
    LET at == SkipWhiteSpace(s, i)
        c == CharAt(s, at)
        inside == SkipWhiteSpace(s, at + 1)
    IN IF at > Len(s) THEN ParseFailure
       ELSE IF c = "{"
       THEN (IF inside <= Len(s) /\ CharAt(s, inside) = "}"
             THEN Parsed(Obj(<<>>), inside + 1)
             ELSE ParseMembers(s, at + 1, <<>>))
       ELSE IF c = "["
       THEN (IF inside <= Len(s) /\ CharAt(s, inside) = "]"
             THEN Parsed(Arr(<<>>), inside + 1)
             ELSE ParseElements(s, at + 1, <<>>))
       ELSE IF c = Quote THEN ParseString(s, at)
       ELSE IF c \in DigitChars \cup {"-"} THEN ParseNumber(s, at)
       ELSE ParseLiteral(s, at)

\* JSON.parse(text): the value, or ParseFailure for a SyntaxError
JSONParse(text) ==
    The({IF r.ok /\ SkipWhiteSpace(text, r.next) > Len(text) THEN r ELSE ParseFailure :
            r \in {ParseValue(text, 1)}})

(***************************************************************************)
(* generateSQLPreview of the view-definition validator module.  A read of  *)
(* a property of undefined or null, or a call of a method the value does   *)
(* not have, throws a TypeError; the paths and expressions of the model    *)
(* are strings or missing.                                                 *)
(***************************************************************************)
SqlText(sql) == [threw |-> FALSE, sql |-> sql]
SqlThrew == [threw |-> TRUE]

\* The callback of select.column.map: the text of one column.
PreviewColumn(col) ==
    LET path == Get(col, "path").s
        sqlPath == IF StrIncludes(path, ".")
                   THEN "json_extract(resource, '$." \o ReplaceAll(path, ".", ".") \o "')"
                   ELSE path
    IN "  " \o sqlPath \o " AS " \o TemplateString(Get(col, "name"))

\* The callback of viewDef.where.map with the conversion of lines 1044-1047
\* left out: the expression is copied.
PreviewConditionVerbatim(w) == "  " \o Get(w, "expression").s

\* The callback of viewDef.where.map: the text of one condition.
PreviewCondition(w) ==
    LET condition == Get(w, "expression").s
        parts == Split(condition, " = ")
    IN "  " \o (IF StrIncludes(condition, " = ")
                THEN "json_extract(resource, '$." \o Trim(parts[1]) \o "') = " \o Trim(parts[2])
                ELSE condition)

PreviewColumnThrows(col) == Nullish(col) \/ ~IsString(Get(col, "path"))
PreviewBlockThrows(b) ==
    \/ Nullish(b)
    \/ ~IsArray(Get(b, "column"))
    \/ \E j \in DOMAIN Get(b, "column").a : PreviewColumnThrows(Get(b, "column").a[j])
PreviewWhereThrows(where) ==
    /\ Truthy(where)
    /\ \/ IsString(where)
       \/ IsArray(where) /\ \E i \in DOMAIN where.a :
             Nullish(where.a[i]) \/ ~IsString(Get(where.a[i], "expression"))

generateSQLPreview(vd) ==
    LET select == Get(vd, "select")
        where == Get(vd, "where")
    IN IF Nullish(vd) \/ ~IsArray(select) THEN SqlThrew
       ELSE IF \E i \in DOMAIN select.a : PreviewBlockThrows(select.a[i]) THEN SqlThrew
       ELSE IF PreviewWhereThrows(where) THEN SqlThrew
       ELSE LET cols == Flatten([i \in DOMAIN select.a |->
                                   [j \in DOMAIN select.a[i].o.column.a |->
                                      PreviewColumn(select.a[i].o.column.a[j])]])
                sql == "SELECT\n" \o JoinText(cols, ",\n") \o "\nFROM "
                       \o TemplateString(Get(vd, "resource"))
            IN IF IsArray(where) /\ Len(where.a) > 0
               THEN SqlText(sql \o "\nWHERE\n"
                            \o JoinText([i \in DOMAIN where.a |-> PreviewCondition(where.a[i])],
                                        " AND\n"))
               ELSE SqlText(sql)

(***************************************************************************)
(* The preview run: one call of generateSQLPreview on a document, which    *)
(* the validator is run on as well.  The column paths are the forms of     *)
(* the path language and texts outside of it.                              *)
(***************************************************************************)
PathColumn(name, path) == Obj([name |-> Str(name), path |-> Str(path)])
PreviewColumns ==
    {PathColumn("id", "getResourceKey()"),
     PathColumn("gender", "gender"),
     PathColumn("family_first", "name.family.first()"),
     PathColumn("family_index", "name[0].family"),
     PathColumn("value_quantity", "value.ofType(Quantity).value"),
     PathColumn("code", "medication.ofType(CodeableConcept).coding.first().code"),
     PathColumn("given", "name.first().given.join(' ')"),
     PathColumn("official", "name.where(use = 'official').family"),
     PathColumn("unbalanced", "foo.bar("),
     PathColumn("unquoted", "name.where(use = 'official).family"),
     PathColumn("unknown_function", "name.family.upper()"),
     PathColumn("inequality", "name.where(use != 'old').family")}
PreviewSelects ==
    {Arr(<<Block(cs)>>) : cs \in SeqsFromTo(PreviewColumns, 1, MaxCols)}
    \cup {Arr(<<Block(<<c>>), Block(<<ColId, ColGender>>)>>) : c \in PreviewColumns}
PreviewExpressions ==
    {"active = true", "gender = 'female'", "name.exists()", "active = true = true",
     "meta.profile.contains('" \o PatientUrl \o "')", "foo.bar("}
PreviewWheres ==
    {Undefined} \cup
    {Arr([i \in DOMAIN es |-> Obj([expression |-> Str(es[i])])]) :
        es \in SeqsUpTo(PreviewExpressions, MaxWhere)}
PreviewDocs ==
    {RootOf(GoodRootFields, select, where) :
        select \in PreviewSelects, where \in {Undefined, GoodWhere}}
    \cup {RootOf(GoodRootFields, select, where) :
        select \in {GoodSelect, Arr(<<Block(<<ColId>>)>>)}, where \in PreviewWheres}
    \cup {RootOf(GoodRootFields, Arr(<<>>), GoodWhere),
          RootOf(GoodRootFields, Arr(<<Block(<<ColNoPath>>)>>), GoodWhere),
          RootOf(GoodRootFields, GoodSelect, Arr(<<WherePath>>))}

InitPreview ==
    /\ previewDoc \in PreviewDocs
    /\ sqlPreview = NotRun
    /\ validation = NotRun
    /\ doc = Undefined
    /\ NormalizerIdle /\ ServerIdle /\ BuilderIdle /\ StorageSeeded /\ WizardIdle /\ PathIdle /\ RecoveryIdle

GeneratePreview ==
    /\ sqlPreview = NotRun
    /\ sqlPreview' = generateSQLPreview(previewDoc)
    /\ UNCHANGED <<previewDoc, storageVars, wizardVars, pathVars, validatorVars, normalizerVars, serverVars,
                   builderVars, recoveryVars>>

ValidatePreviewed ==
    /\ validation = NotRun
    /\ validation' = validateViewDefinition(previewDoc)
    /\ UNCHANGED <<doc, previewVars, storageVars, wizardVars, pathVars, normalizerVars, serverVars, builderVars, recoveryVars>>

NextPreview == GeneratePreview \/ ValidatePreviewed

SpecPreview == InitPreview /\ [][NextPreview]_vars

(***************************************************************************)
(* transformProfileToViewDefinition, from the message of the model to the  *)
(* result: the extraction of the JSON text and the regular expressions of  *)
(* the recovery steps.  A match is the text of its first group, the empty  *)
(* text when there is no match (no group of the code matches the empty     *)
(* text, except where stated).                                             *)
(***************************************************************************)
\* The fence of a code block: three backquotes in the code.  The texts of the
\* model write a backquote as a tilde, which no text of the model uses
\* otherwise.
Fence == "~~~"
WordChars == LowerChars \cup UpperChars \cup DigitChars \cup {"_"}
Greatest(S) == CHOOSE j \in S : \A k \in S : j >= k

\* content.match(codeBlock) of line 271 for a match that starts at i: a fence
\* of three backquotes, "json" or nothing, white space, the group from a "{"
\* to the last "}" that white space and a fence follow
FencedJsonAt(content, i) ==
    LET tag == i + Len(Fence)
        open == SkipWhiteSpace(content, IF StartsWithAt(content, tag, "json")
                                        THEN tag + Len("json") ELSE tag)
        closes == {e \in (open + 1)..Len(content) :
                     /\ CharAt(content, e) = "}"
                     /\ StartsWithAt(content, SkipWhiteSpace(content, e + 1), Fence)}
    IN IF ~StartsWithAt(content, i, Fence) \/ open > Len(content) THEN ""
       ELSE IF CharAt(content, open) # "{" \/ closes = {} THEN ""
       ELSE SubSeq(content, open, Greatest(closes))
CodeBlockMatch(content) ==
    LET starts == {i \in 1..Len(content) : FencedJsonAt(content, i) # ""}
    IN IF starts = {} THEN "" ELSE FencedJsonAt(content, Least(starts))

\* content.match(/(\{[\s\S]*\})/): from the first "{" to the last "}" after it
JsonMatch(content) ==
    LET open == IndexOfFrom(content, "{", 1)
        close == LastIndexOf(content, "}")
    IN IF open = 0 \/ close < open THEN "" ELSE SubSeq(content, open, close)

\* lines 250-266: the text of the first text block, or a thrown Error
Failed(error) == [threw |-> TRUE, error |-> error]
TextContent(m) ==
    LET texts == {i \in DOMAIN m.content.a : m.content.a[i].type = "text"}
    IN IF texts = {} THEN "" ELSE m.content.a[Least(texts)].text
ContentError(m) ==
    IF m.content = Undefined \/ Len(m.content.a) = 0 THEN "Empty response from Claude"
    ELSE IF TextContent(m) = "" THEN "No text content found in Claude's response"
    ELSE ""

\* lines 268-282
JsonContentOf(content) ==
    IF CodeBlockMatch(content) # "" THEN CodeBlockMatch(content)
    ELSE IF JsonMatch(content) # "" THEN JsonMatch(content)
    ELSE content

\* What a successful first or second attempt returns.
DialectDefaults(sqlQuery) ==
    Obj([databricks |-> sqlQuery, bigquery |-> sqlQuery, snowflake |-> sqlQuery,
         postgres |-> sqlQuery, sqlserver |-> sqlQuery])
\* !result.viewDefinition || !result.sqlQuery; the read throws on null and is
\* caught by the same handler
MissingViewDefinitionOnly(result) == ~Truthy(Get(result, "viewDefinition"))
MissingRequiredFields(result) ==
    ~Truthy(Get(result, "viewDefinition")) \/ ~Truthy(Get(result, "sqlQuery"))
ParsedResult(result) ==
    [threw |-> FALSE,
     viewDefinition |-> Get(result, "viewDefinition"),
     sqlQuery |-> Get(result, "sqlQuery"),
     platformSql |-> IF Truthy(Get(result, "platformSql")) THEN Get(result, "platformSql")
                     ELSE DialectDefaults(Get(result, "sqlQuery"))]

\* lines 316-333: one closer is appended for each opener that has none
AppendClosers(text, open, close) ==
    text \o Repeat(close, CountChar(text, open) - CountChar(text, close))

\* text.replace(/,\s*<closer>/g, closer)
RECURSIVE StripTrailingCommas(_, _)
StripTrailingCommas(text, closer) ==
    LET commas == {i \in 1..Len(text) :
                     /\ CharAt(text, i) = ","
                     /\ StartsWithAt(text, SkipWhiteSpace(text, i + 1), closer)}
        at == Least(commas)
        end == SkipWhiteSpace(text, at + 1)
    IN IF commas = {} THEN text
       ELSE SubSeq(text, 1, at - 1) \o closer
            \o StripTrailingCommas(SubSeq(text, end + 1, Len(text)), closer)

\* text.replace(/(\{|\,)\s*([a-zA-Z0-9_]+)\s*\:/g, '$1"$2":')
WordEnd(text, i) ==
    LET stop == {j \in i..Len(text) : CharAt(text, j) \notin WordChars}
    IN IF stop = {} THEN Len(text) + 1 ELSE Least(stop)
BareKeyAt(text, i) ==
    LET word == SkipWhiteSpace(text, i + 1)
        end == WordEnd(text, word)
    IN /\ CharAt(text, i) \in {"{", ","}
       /\ end > word
       /\ StartsWithAt(text, SkipWhiteSpace(text, end), ":")
RECURSIVE QuoteBareKeys(_)
QuoteBareKeys(text) ==
    LET keys == {i \in 1..Len(text) : BareKeyAt(text, i)}
        at == Least(keys)
        word == SkipWhiteSpace(text, at + 1)
        end == WordEnd(text, word)
        colon == SkipWhiteSpace(text, end)
    IN IF keys = {} THEN text
       ELSE SubSeq(text, 1, at) \o Quote \o SubSeq(text, word, end - 1) \o Quote \o ":"
            \o QuoteBareKeys(SubSeq(text, colon + 1, Len(text)))

\* lines 314-339: the closers are appended with the braces first
AppendBracketsFirst(text) == AppendClosers(AppendClosers(text, "[", "]"), "{", "}")
AppendBraces(text) == AppendClosers(text, "{", "}")
AppendMissingClosers(text) == AppendClosers(AppendClosers(text, "{", "}"), "[", "]")
FixUp(text) ==
    QuoteBareKeys(StripTrailingCommas(StripTrailingCommas(AppendMissingClosers(text), "}"), "]"))

\* jsonContent.match(/"viewDefinition"\s*:\s*(\{[\s\S]*?(?:\}\s*,|\}\s*\}))/)
\* for a match that starts at i: from the "{" to the first "}" that a "," or a
\* "}" follows
ViewDefinitionKey == "\"viewDefinition\""
ViewDefinitionAt(text, i) ==
    LET colon == SkipWhiteSpace(text, i + Len(ViewDefinitionKey))
        open == SkipWhiteSpace(text, colon + 1)
        ends == {c \in (open + 1)..Len(text) :
                    /\ CharAt(text, c) = "}"
                    /\ \/ StartsWithAt(text, SkipWhiteSpace(text, c + 1), ",")
                       \/ StartsWithAt(text, SkipWhiteSpace(text, c + 1), "}")}
    IN IF ~StartsWithAt(text, i, ViewDefinitionKey) \/ ~StartsWithAt(text, colon, ":") THEN ""
       ELSE IF ~StartsWithAt(text, open, "{") \/ ends = {} THEN ""
       ELSE SubSeq(text, open, SkipWhiteSpace(text, Least(ends) + 1))
ViewDefinitionMatch(text) ==
    LET starts == {i \in 1..Len(text) : ViewDefinitionAt(text, i) # ""}
    IN IF starts = {} THEN "" ELSE ViewDefinitionAt(text, Least(starts))

\* lines 377-391: the extracted text without its trailing comma, closed, parsed
ExtractedViewDefinition(text) ==
    LET matched == ViewDefinitionMatch(text)
        trimmed == TrimEnd(matched)
        viewDefString == IF trimmed # "" /\ CharAt(trimmed, Len(trimmed)) = ","
                         THEN SubSeq(trimmed, 1, Len(trimmed) - 1) ELSE matched
    IN IF matched = "" THEN ParseFailure ELSE JSONParse(AppendBraces(viewDefString))

\* jsonContent.match(/"sqlQuery"\s*:\s*"((?:[^"\\]|\\.)*)"/) for a match that
\* starts at i; no match where a backslash stands in front of a line break
SqlQueryKey == "\"sqlQuery\""
NoSqlQueryMatch == [matched |-> FALSE]
SqlQueryAt(text, i) ==
    LET colon == SkipWhiteSpace(text, i + Len(SqlQueryKey))
        open == SkipWhiteSpace(text, colon + 1)
        close == ClosingQuote(text, open)
    IN IF ~StartsWithAt(text, i, SqlQueryKey) \/ ~StartsWithAt(text, colon, ":")
       THEN NoSqlQueryMatch
       ELSE IF ~StartsWithAt(text, open, Quote) \/ close = 0 THEN NoSqlQueryMatch
       ELSE IF StrIncludes(SubSeq(text, open + 1, close - 1), Backslash \o "\n")
       THEN NoSqlQueryMatch
       ELSE [matched |-> TRUE, group |-> SubSeq(text, open + 1, close - 1)]
SqlQueryMatch(text) ==
    LET starts == {i \in 1..Len(text) : SqlQueryAt(text, i).matched}
    IN IF starts = {} THEN NoSqlQueryMatch ELSE SqlQueryAt(text, Least(starts))

\* lines 400-406
ExtractedSqlQuery(text) ==
    LET found == SqlQueryMatch(text) IN
    IF found.matched /\ found.group # ""
    THEN ReplaceAll(found.group, Backslash \o Quote, Quote)
    ELSE "-- SQL query could not be extracted"

(***************************************************************************)
(* The last resort of transformProfileToViewDefinition (lines 423-596): a  *)
(* view definition and SQL texts built from the profile.  A profile        *)
(* carries the element list its structure definition resolves to (the      *)
(* snapshot, else the differential, else none) as structureDefinition.     *)
(***************************************************************************)
PrimitiveTypes == {"string", "code", "id", "boolean", "decimal", "integer", "date",
                   "dateTime", "instant", "time", "uri", "url"}
Element(path, max, types) == [path |-> path, max |-> max, type |-> types]
StructureElements(p) ==
    IF "structureDefinition" \in DOMAIN p THEN p.structureDefinition ELSE <<>>
MainColumn(name, path) == [name |-> name, path |-> path]

\* The callback of elements.forEach: the column an element adds, if any.
ElementColumns(p, element) ==
    LET pathParts == Split(element.path, ".")
        hasPrimitiveType == \E i \in DOMAIN element.type : element.type[i] \in PrimitiveTypes
    IN IF element.path = p.resourceType THEN <<>>
       ELSE IF element.max = "*" \/ Len(pathParts) > 2 THEN <<>>
       ELSE IF hasPrimitiveType /\ Len(pathParts) >= 2
       THEN <<MainColumn(ToLowerCase(JoinText(Tail(pathParts), "_")),
                         JoinText(Tail(pathParts), "."))>>
       ELSE <<>>

SpecialColumns(resourceType) ==
    CASE resourceType = "Patient" ->
           <<MainColumn("name_given", "name.first().given.join(' ')"),
             MainColumn("name_family", "name.first().family"),
             MainColumn("gender", "gender"),
             MainColumn("birth_date", "birthDate")>>
      [] resourceType = "Observation" ->
           <<MainColumn("status", "status"),
             MainColumn("category_coding_code", "category.first().coding.first().code"),
             MainColumn("code_coding_code", "code.coding.first().code"),
             MainColumn("code_coding_display", "code.coding.first().display"),
             MainColumn("effective_date_time", "effective.ofType(dateTime)"),
             MainColumn("value_quantity_value", "value.ofType(Quantity).value"),
             MainColumn("value_quantity_unit", "value.ofType(Quantity).unit"),
             MainColumn("subject_reference", "subject.reference")>>
      [] resourceType = "Condition" ->
           <<MainColumn("clinical_status", "clinicalStatus.coding.first().code"),
             MainColumn("verification_status", "verificationStatus.coding.first().code"),
             MainColumn("code_coding_code", "code.coding.first().code"),
             MainColumn("code_coding_display", "code.coding.first().display"),
             MainColumn("subject_reference", "subject.reference"),
             MainColumn("onset_date_time", "onset.ofType(dateTime)")>>
      [] resourceType = "Encounter" ->
           <<MainColumn("status", "status"),
             MainColumn("class_code", "class.code"),
             MainColumn("type_coding_code", "type.first().coding.first().code"),
             MainColumn("subject_reference", "subject.reference"),
             MainColumn("period_start", "period.start"),
             MainColumn("period_end", "period.end")>>
      [] resourceType \in {"Medication", "MedicationRequest"} ->
           <<MainColumn("status", "status"),
             MainColumn("medication_coding_code",
                        "medication.ofType(CodeableConcept).coding.first().code"),
             MainColumn("medication_coding_display",
                        "medication.ofType(CodeableConcept).coding.first().display"),
             MainColumn("subject_reference", "subject.reference")>>
      [] OTHER -> <<>>

MainColumns(p) ==
    <<MainColumn("id", "getResourceKey()"), MainColumn("resource_type", "resourceType")>>
    \o Flatten([i \in DOMAIN StructureElements(p) |->
                  ElementColumns(p, StructureElements(p)[i])])
    \o SpecialColumns(p.resourceType)

\* s.replace(/\s+/g, rep)
ReplaceWhiteSpaceRuns(s, rep) ==
    LET IsBlankAt(i) == CharAt(s, i) \in WhiteSpaceChars
        piece == [i \in 1..Len(s) |->
                    IF ~IsBlankAt(i) THEN CharAt(s, i)
                    ELSE IF i = 1 \/ ~IsBlankAt(i - 1) THEN rep ELSE ""]
    IN ConcatRange(piece, 1, Len(s))
\* s.substring(0, n)
Substring(s, n) == SubSeq(s, 1, IF Len(s) < n THEN Len(s) ELSE n)

FallbackName(p) == Substring(ReplaceWhiteSpaceRuns(ToLowerCase(p.name), "_"), 50)
FallbackViewDefinition(p) ==
    Obj([resourceType |->
            Str("http://hl7.org/fhir/uv/sql-on-fhir/StructureDefinition/ViewDefinition"),
         id |-> Str(ReplaceWhiteSpaceRuns(ToLowerCase(p.name), "-") \o "-view"),
         name |-> Str(FallbackName(p)),
         resource |-> Str(p.resourceType),
         status |-> Str("active"),
         select |-> Arr(<<Obj([column |->
                       Arr([i \in DOMAIN MainColumns(p) |->
                              Obj([name |-> Str(MainColumns(p)[i].name),
                                   path |-> Str(MainColumns(p)[i].path)])])])>>),
         where |-> Arr(<<Obj([path |-> Str("meta.profile.contains('" \o p.url \o "')")])>>)])

\* path.replace(/<call>[^)]+\)/g, '') for call = ".ofType(" or ".join("
RECURSIVE RemoveCalls(_, _)
RemoveCalls(path, call) ==
    LET CloseOf(i) == IndexOfFrom(path, ")", i + Len(call))
        calls == {i \in 1..Len(path) :
                    StartsWithAt(path, i, call) /\ CloseOf(i) > i + Len(call)}
        at == Least(calls)
    IN IF calls = {} THEN path
       ELSE SubSeq(path, 1, at - 1)
            \o RemoveCalls(SubSeq(path, CloseOf(at) + 1, Len(path)), call)

\* The callback of mainColumns.map (lines 534-558): the text of one column.
ColumnSelection(col) ==
    IF ~StrIncludes(col.path, ".") \/ col.path \in {"getResourceKey()", "resourceType"}
    THEN (IF col.path = "getResourceKey()" THEN "id" ELSE col.path) \o " as " \o col.name
    ELSE IF StrIncludes(col.path, ".first()")
    THEN ReplaceAll(col.path, ".first()", "[0]") \o " as " \o col.name
    ELSE IF StrIncludes(col.path, ".ofType(")
    THEN RemoveCalls(col.path, ".ofType(") \o " as " \o col.name
    ELSE IF StrIncludes(col.path, ".join(")
    THEN RemoveCalls(col.path, ".join(") \o " as " \o col.name
    ELSE col.path \o " as " \o col.name

GenericSqlQuery(p) ==
    "-- Fallback SQL query\nCREATE VIEW " \o FallbackName(p) \o " AS\nSELECT \n  "
    \o JoinText([i \in DOMAIN MainColumns(p) |-> ColumnSelection(MainColumns(p)[i])], ",\n  ")
    \o "\nFROM " \o p.resourceType
    \o "\nWHERE meta.profile LIKE '%" \o p.url \o "%'"

\* sql.replace(/WHERE meta\.profile LIKE '%(.+?)%'/, before $1 after): the first
\* match is replaced, the group being the shortest text of one line that "%'"
\* follows
LikePrefix == "WHERE meta.profile LIKE '%"
ContainmentRewrite(sql, before, after) ==
    LET GroupEnds(i) ==
           {e \in (i + Len(LikePrefix) + 1)..Len(sql) :
               /\ StartsWithAt(sql, e, "%'")
               /\ ~StrIncludes(SubSeq(sql, i + Len(LikePrefix), e - 1), "\n")}
        starts == {i \in 1..Len(sql) : StartsWithAt(sql, i, LikePrefix) /\ GroupEnds(i) # {}}
        at == Least(starts)
        end == Least(GroupEnds(at))
    IN IF starts = {} THEN sql
       ELSE SubSeq(sql, 1, at - 1) \o before \o SubSeq(sql, at + Len(LikePrefix), end - 1)
            \o after \o SubSeq(sql, end + Len("%'"), Len(sql))

FallbackPlatformSql(sql) ==
    Obj([databricks |-> Str(ContainmentRewrite(sql, "WHERE array_contains(meta.profile, '", "')")),
         bigquery |-> Str(ContainmentRewrite(sql, "WHERE '", "' IN UNNEST(meta.profile)")),
         snowflake |-> Str(ContainmentRewrite(sql, "WHERE array_contains(meta.profile, '", "')")),
         postgres |-> Str(ContainmentRewrite(sql, "WHERE meta.profile @> ARRAY['", "']")),
         sqlserver |-> Str(ContainmentRewrite(sql, "WHERE JSON_QUERY(meta, '$.profile') LIKE '%",
                                              "%'"))])

FallbackResult(p) ==
    [threw |-> FALSE,
     viewDefinition |-> FallbackViewDefinition(p),
     sqlQuery |-> Str(GenericSqlQuery(p)),
     platformSql |-> FallbackPlatformSql(GenericSqlQuery(p))]

(***************************************************************************)
(* The recovery run: one call of transformProfileToViewDefinition from the *)
(* message of the model on, step by step, and the rest of the transform    *)
(* handler for a stored profile.                                           *)
(***************************************************************************)
\* The texts of the model's answer.
AnswerViewDefinition ==
    "{\"resource\":\"Patient\",\"select\":[{\"column\":[{\"name\":\"id\",\"path\":\"id\"}]}]}"
AnswerSql == "\"sqlQuery\":\"SELECT id FROM Patient\""
WellFormedTexts ==
    {"{\"viewDefinition\":" \o AnswerViewDefinition \o "," \o AnswerSql \o "}",
     "{" \o AnswerSql \o ",\"viewDefinition\":" \o AnswerViewDefinition \o "}",
     "{" \o AnswerSql \o ",\"viewDefinition\":" \o AnswerViewDefinition
         \o ",\"tables\":[\"Patient\"]}",
     "{\"viewDefinition\":" \o AnswerViewDefinition \o "," \o AnswerSql
         \o ",\"tables\":[\"Patient\"]}"}
PlatformTexts ==
    {"{\"viewDefinition\":{\"resource\":\"Patient\",\"select\":[]}," \o AnswerSql
        \o ",\"platformSql\":{\"databricks\":\"SELECT id FROM Patient\"}}",
     "{\"viewDefinition\":{\"resource\":\"Patient\",\"select\":[]}," \o AnswerSql
        \o ",\"platformSql\":{\"databricks\":\"d\",\"bigquery\":\"b\",\"snowflake\":\"s\","
        \o "\"postgres\":\"p\",\"sqlserver\":\"m\"}}"}
\* a text without its last "}" and without its last "]"
DropLast(text, c) ==
    SubSeq(text, 1, LastIndexOf(text, c) - 1)
    \o SubSeq(text, LastIndexOf(text, c) + 1, Len(text))
DropTrailingClosers(text) == DropLast(DropLast(text, "}"), "]")
TruncatedTexts == {DropTrailingClosers(w) : w \in WellFormedTexts}
WrappedTexts ==
    {"Here is the view:\n" \o Fence \o "json\n" \o w \o "\n" \o Fence \o "\nIt has {1} column."
        : w \in {"{\"viewDefinition\":" \o AnswerViewDefinition \o "," \o AnswerSql \o "}"}}
    \cup {"Here is the view: {" \o AnswerSql \o ",\"viewDefinition\":"
          \o AnswerViewDefinition \o "} as requested."}
RepairableTexts ==
    {"{" \o AnswerSql \o ",\"viewDefinition\":{\"resource\":\"Patient\",\"select\":[]}",
     "{viewDefinition: {\"resource\":\"Patient\",\"select\":[],}, sqlQuery: \"SELECT 1\",}"}
ExtractableTexts ==
    {"{\"viewDefinition\":{\"resource\":\"Patient\",\"select\":[]},"
        \o "\"sqlQuery\":\"SELECT id\nFROM \\\"Patient\\\"\"}",
     "{\"viewDefinition\": {\"resource\":\"Patient\",\"select\":[]} ,\"sqlQuery\":unknown}"}
IncompleteTexts ==
    {"{\"sqlQuery\":\"SELECT 1\"}",
     "{\"viewDefinition\":{\"resource\":\"Patient\",\"select\":[]}}",
     "null"}
HopelessTexts == {"I cannot produce a view for this profile.", "{", " "}
ResponseTexts ==
    WellFormedTexts \cup PlatformTexts \cup TruncatedTexts \cup WrappedTexts
    \cup RepairableTexts \cup ExtractableTexts \cup IncompleteTexts \cup HopelessTexts

TextMessage(text) == [content |-> Arr(<<[type |-> "text", text |-> text]>>)]
ModelMessages ==
    {TextMessage(t) : t \in ResponseTexts \cup {""}}
    \cup {[content |-> Undefined], [content |-> Arr(<<>>)],
          [content |-> Arr(<<[type |-> "tool_use"]>>)],
          [content |-> Arr(<<[type |-> "tool_use"], [type |-> "text", text |-> "{"],
                             [type |-> "text", text |-> "null"]>>)]}

\* The profiles: two seeded ones and profiles of other resource types.
OtherProfile(id, resourceType, name) ==
    [id |-> id, implementationGuideId |-> 2, resourceType |-> resourceType, name |-> name,
     url |-> "http://example.org/fhir/StructureDefinition/" \o ToLowerCase(resourceType)]
DeviceElements ==
    <<Element("Device", "*", <<>>),
      Element("Device.status", "1", <<"code">>),
      Element("Device.note", "*", <<"string">>),
      Element("Device.udiCarrier.deviceIdentifier", "1", <<"string">>),
      Element("Device.owner", "1", <<"Reference">>),
      Element("Device.lotNumber", "1", <<"string">>)>>
PatientElements ==
    <<Element("Patient", "*", <<>>),
      Element("Patient.active", "1", <<"boolean">>),
      Element("Patient.name", "*", <<"HumanName">>),
      Element("Patient.gender", "1", <<"code">>),
      Element("Patient.birthDate", "1", <<"date">>)>>
RecoveryProfiles ==
    {SeededProfiles[1], SeededProfiles[2],
     OtherProfile(9, "Patient", "Patient With Snapshot")
        @@ [structureDefinition |-> PatientElements],
     OtherProfile(5, "Condition", "US Core Condition Profile"),
     OtherProfile(6, "Encounter", "US Core Encounter Profile"),
     OtherProfile(7, "MedicationRequest", "US Core MedicationRequest Profile"),
     OtherProfile(8, "Device", "Implantable Device") @@ [structureDefinition |-> DeviceElements]}

ConfiguredKey == Str("sk-ant-configured")

InitRecover ==
    /\ profileData \in RecoveryProfiles
    /\ modelMessage \in ModelMessages
    /\ jsonContent = ""
    /\ recoveryStep = "answered"
    /\ attempts = <<>>
    /\ recovered = NotRun
    /\ transformations = <<>>
    /\ nextTransformationId = 1
    /\ envApiKey = ConfiguredKey
    /\ response = NoResponse
    /\ received = {}
    /\ ValidatorIdle /\ NormalizerIdle /\ BuilderIdle /\ PreviewIdle /\ StorageSeeded /\ WizardIdle /\ PathIdle

RecoveryOnly == UNCHANGED <<validatorVars, normalizerVars, serverVars, builderVars, previewVars, storageVars, wizardVars, pathVars>>

\* What a recovery step leaves behind in attempts.
Attempt(name, text, outcome, returned) ==
    [step |-> name, text |-> text, parsed |-> outcome.ok,
     value |-> IF outcome.ok THEN outcome.v ELSE Undefined, returned |-> returned]
Return(result) == recovered' = result /\ recoveryStep' = "done"
GoOn(next) == recoveryStep' = next /\ UNCHANGED recovered

\* lines 250-284: the text of the message and the JSON text inside of it
ExtractJsonContent ==
    /\ recoveryStep = "answered"
    /\ IF ContentError(modelMessage) # ""
       THEN /\ Return(Failed("Failed to transform profile: " \o ContentError(modelMessage)))
            /\ UNCHANGED jsonContent
       ELSE /\ jsonContent' = JsonContentOf(TextContent(modelMessage))
            /\ GoOn("first attempt")
    /\ UNCHANGED <<profileData, modelMessage, attempts>>
    /\ RecoveryOnly

\* lines 287-310: JSON.parse of the text as it is
FirstAttempt ==
    /\ recoveryStep = "first attempt"
    /\ \E outcome \in {JSONParse(jsonContent)} :
          LET complete == outcome.ok /\ ~MissingRequiredFields(outcome.v) IN
          /\ attempts' = Append(attempts, Attempt("parse-as-is", jsonContent, outcome, complete))
          /\ IF complete THEN Return(ParsedResult(outcome.v)) ELSE GoOn("second attempt")
    /\ UNCHANGED <<profileData, modelMessage, jsonContent>>
    /\ RecoveryOnly

\* lines 312-365: JSON.parse of the fixed text
SecondAttempt ==
    /\ recoveryStep = "second attempt"
    /\ \E fixedJson \in {FixUp(jsonContent)} :
       \E outcome \in {JSONParse(fixedJson)} :
          LET complete == outcome.ok /\ ~MissingRequiredFields(outcome.v) IN
          /\ attempts' = Append(attempts,
                                Attempt("fix-up-and-reparse", fixedJson, outcome, complete))
          /\ IF complete THEN Return(ParsedResult(outcome.v)) ELSE GoOn("third attempt")
    /\ UNCHANGED <<profileData, modelMessage, jsonContent>>
    /\ RecoveryOnly

\* lines 367-421: the viewDefinition and the sqlQuery cut out of the text
ThirdAttempt ==
    /\ recoveryStep = "third attempt"
    /\ \E outcome \in {ExtractedViewDefinition(jsonContent)} :
       \E sqlQuery \in {Str(ExtractedSqlQuery(jsonContent))} :
          /\ attempts' = Append(attempts, Attempt("extract-fragments",
                                                  ViewDefinitionMatch(jsonContent),
                                                  outcome, outcome.ok))
          /\ IF outcome.ok
             THEN Return([threw |-> FALSE, viewDefinition |-> outcome.v, sqlQuery |-> sqlQuery,
                          platformSql |-> DialectDefaults(sqlQuery)])
             ELSE GoOn("last resort")
    /\ UNCHANGED <<profileData, modelMessage, jsonContent>>
    /\ RecoveryOnly

\* lines 423-596: the result built from the profile
LastResort ==
    /\ recoveryStep = "last resort"
    /\ \E result \in {FallbackResult(profileData)} :
          /\ attempts' = Append(attempts,
                                Attempt("synthesize-fallback", "",
                                        Parsed(result.viewDefinition, 0), TRUE))
          /\ Return(result)
    /\ UNCHANGED <<profileData, modelMessage, jsonContent>>
    /\ RecoveryOnly

\* The transform handler from the await of line 453 on, for the request
\* POST /api/profiles/<id>/transform that made the call.
CompleteTransform ==
    /\ recoveryStep = "done"
    /\ GetProfile(profileData.id) = profileData
    /\ recoveryStep' = "responded"
    /\ Transform(ToString(profileData.id), TransformBody(Str("analytics"), Undefined), recovered)
    /\ UNCHANGED <<profileData, modelMessage, jsonContent, attempts, recovered>>

NextRecover ==
    \/ ExtractJsonContent
    \/ FirstAttempt
    \/ SecondAttempt
    \/ ThirdAttempt
    \/ LastResort
    \/ CompleteTransform

SpecRecover == InitRecover /\ [][NextRecover]_vars

(***************************************************************************)
(* What the properties of the SQL preview speak about: the path language   *)
(* (section 4.3 of the specification) and the items of a generated text.   *)
(***************************************************************************)
KnownFunctions == {"first", "where", "ofType", "getResourceKey", "getReferenceKey", "join"}

\* Every ")" closes an earlier "(" and none is left open.
ParenDepth(s, n) == CountChar(SubSeq(s, 1, n), "(") - CountChar(SubSeq(s, 1, n), ")")
BalancedParens(s) ==
    /\ \A n \in 1..Len(s) : ParenDepth(s, n) >= 0
    /\ ParenDepth(s, Len(s)) = 0
BalancedQuotes(s) == CountChar(s, "'") % 2 = 0

\* The name in front of the "(" at position i: the letters that end at i - 1.
RECURSIVE NameEndingAt(_, _)
NameEndingAt(s, i) ==
    IF i >= 1 /\ CharAt(s, i) \in LowerChars \cup UpperChars
    THEN NameEndingAt(s, i - 1) \o CharAt(s, i) ELSE ""
CalledFunctions(s) == {NameEndingAt(s, i - 1) : i \in {j \in 1..Len(s) : CharAt(s, j) = "("}}
NonEqualityPredicate(s) ==
    StrIncludes(s, "where(") /\ \E op \in {"!=", "<", ">"} : StrIncludes(s, op)

\* A column path outside the path language.
Untranslatable(path) ==
    \/ ~BalancedParens(path)
    \/ ~BalancedQuotes(path)
    \/ ~(CalledFunctions(path) \subseteq KnownFunctions)
    \/ NonEqualityPredicate(path)

\* The columns of a document in flattened order, and its where expressions.
FlatColumns(d) ==
    Flatten([i \in DOMAIN SelectOf(d) |-> Get(SelectOf(d)[i], "column").a])
Expressions(d) ==
    IF IsArray(Get(d, "where"))
    THEN [i \in DOMAIN Get(d, "where").a |-> Get(Get(d, "where").a[i], "expression").s]
    ELSE <<>>

\* A text with every run of white space read as one blank.
Squeeze(s) ==
    LET IsBlankAt(i) == CharAt(s, i) \in WhiteSpaceChars
        piece == [i \in 1..Len(s) |->
                    IF ~IsBlankAt(i) THEN CharAt(s, i)
                    ELSE IF i > 1 /\ ~IsBlankAt(i - 1) THEN " " ELSE ""]
    IN ConcatRange(piece, 1, Len(s))
SameUpToWhiteSpace(a, b) == Squeeze(Trim(a)) = Squeeze(Trim(b))

\* The items "<fragment> AS <name>" of a generated text, in order: what
\* stands between SELECT and FROM, cut at the commas that end a line.
SelectList(sql) ==
    SubSeq(sql, Len("SELECT\n") + 1, IndexOfFrom(sql, "\nFROM ", 1) - 1)
ItemOf(text) ==
    LET at == LastIndexOf(text, " AS ") IN
    [fragment |-> Trim(SubSeq(text, 1, at - 1)),
     name |-> SubSeq(text, at + Len(" AS "), Len(text))]
PreviewItems(sql) ==
    LET texts == Split(SelectList(sql), ",\n") IN [i \in DOMAIN texts |-> ItemOf(texts[i])]
FragmentsOf(sql, name) ==
    {PreviewItems(sql)[i].fragment :
        i \in {j \in DOMAIN PreviewItems(sql) : PreviewItems(sql)[j].name = name}}

PreviewReturned == sqlPreview # NotRun /\ ~sqlPreview.threw
ValidatedPreview ==
    /\ validation # NotRun /\ ~validation.threw /\ validation.isValid
    /\ sqlPreview # NotRun

\* C11: translation fails closed: when a column path of the document has
\* unbalanced parentheses or quotes, calls an unknown function or uses a
\* predicate other than equality (foo.bar( for one), generateSQLPreview emits
\* no "<fragment> AS <name>" item for that column.
C11_TranslationFailsClosed ==
    PreviewReturned =>
       \A i \in DOMAIN FlatColumns(previewDoc) :
          LET col == FlatColumns(previewDoc)[i] IN
          Untranslatable(Get(col, "path").s) => FragmentsOf(sqlPreview.sql, Get(col, "name").s) = {}

\* C12: name.family.first() and name[0].family translate to identical
\* fragments: whenever the generated text holds an item for a column with
\* the one path and an item for a column with the other, the two fragments
\* are the same text.
C12_FirstIsIndexZero ==
    PreviewReturned =>
       \A i, j \in DOMAIN FlatColumns(previewDoc) :
          LET a == FlatColumns(previewDoc)[i]
              b == FlatColumns(previewDoc)[j]
          IN (Get(a, "path").s = "name.family.first()" /\ Get(b, "path").s = "name[0].family")
             => FragmentsOf(sqlPreview.sql, Get(a, "name").s)
                = FragmentsOf(sqlPreview.sql, Get(b, "name").s)

\* C13: for every column whose path contains ofType(Type), whatever else the
\* path contains, the fragment generated for the column contains no ofType.
C13_OfTypeElided ==
    PreviewReturned =>
       \A i \in DOMAIN FlatColumns(previewDoc) :
          LET col == FlatColumns(previewDoc)[i] IN
          StrIncludes(Get(col, "path").s, "ofType(") =>
             \A f \in FragmentsOf(sqlPreview.sql, Get(col, "name").s) : ~StrIncludes(f, "ofType")

\* The statement section 4.4 of the specification describes, on one line:
\* SELECT <fragment> AS <name>, ... FROM <resource> [WHERE <p> AND <p> ...].
ExpectedFragment(path) ==
    IF StrIncludes(path, ".") THEN "json_extract(resource, '$." \o path \o "')" ELSE path
ExpectedItem(col) == ExpectedFragment(Get(col, "path").s) \o " AS " \o Get(col, "name").s
VerbatimPredicate(e) == e
\* An entry with " = " reads json_extract(resource, '$.<left>') = <right>,
\* left and right being its first two parts; any other entry is copied.
ExtractedPredicate(e) ==
    LET at == IndexOfFrom(e, " = ", 1)
        rest == SubSeq(e, at + Len(" = "), Len(e))
        next == IndexOfFrom(rest, " = ", 1)
        right == IF next = 0 THEN rest ELSE SubSeq(rest, 1, next - 1)
    IN IF at = 0 THEN e
       ELSE "json_extract(resource, '$." \o Trim(SubSeq(e, 1, at - 1)) \o "') = " \o Trim(right)
GenericSql(d, Predicate(_)) ==
    LET cols == FlatColumns(d)
        exprs == Expressions(d)
    IN "SELECT " \o JoinText([i \in DOMAIN cols |-> ExpectedItem(cols[i])], ", ")
       \o " FROM " \o Get(d, "resource").s
       \o (IF exprs # <<>>
           THEN " WHERE " \o JoinText([i \in DOMAIN exprs |-> Predicate(exprs[i])], " AND ")
           ELSE "")
CanonicalExample ==
    RootOf(GoodRootFields, Arr(<<Block(<<PathColumn("id", "getResourceKey()")>>)>>), GoodWhere)

\* C14 (as claimed): for a validated document the generic SQL is, up to white
\* space, one "<fragment> AS <name>" item per column in flattened order, FROM
\* <resource>, and a WHERE clause exactly when where is non-empty whose
\* predicates are the where entries in order joined by AND; the canonical
\* example gives SELECT getResourceKey() AS id FROM Patient WHERE active = true.
C14_GenericSqlOfEntries ==
    ValidatedPreview =>
       /\ PreviewReturned
       /\ SameUpToWhiteSpace(sqlPreview.sql, GenericSql(previewDoc, VerbatimPredicate))
       /\ previewDoc = CanonicalExample =>
             SameUpToWhiteSpace(sqlPreview.sql,
                                "SELECT getResourceKey() AS id FROM Patient WHERE active = true")

\* C14 (amended): the same statement with the predicates being the translated
\* where entries: an entry with " = " reads json_extract(resource, '$.<left>')
\* = <right>, any other entry is copied; the canonical example gives SELECT
\* getResourceKey() AS id FROM Patient WHERE json_extract(resource,
\* '$.active') = true.
C14_GenericSqlOfTranslatedEntries ==
    ValidatedPreview =>
       /\ PreviewReturned
       /\ SameUpToWhiteSpace(sqlPreview.sql, GenericSql(previewDoc, ExtractedPredicate))
       /\ StrIncludes(Squeeze(sqlPreview.sql), " WHERE ") <=> Expressions(previewDoc) # <<>>
       /\ previewDoc = CanonicalExample =>
             SameUpToWhiteSpace(
                sqlPreview.sql,
                "SELECT getResourceKey() AS id FROM Patient WHERE json_extract(resource, '$.active') = true")

C14_Witness ==
    /\ ValidatedPreview /\ PreviewReturned
    /\ Len(FlatColumns(previewDoc)) = 2
    /\ Len(Expressions(previewDoc)) = 2
    /\ Expressions(previewDoc)[1] = "name.exists()"
    /\ Expressions(previewDoc)[2] = "active = true"

(***************************************************************************)
(* What the properties of the recovery run speak about.                    *)
(***************************************************************************)
DialectNames == {"databricks", "bigquery", "snowflake", "postgres", "sqlserver"}
\* transformProfileToViewDefinition has returned a result
RecoveryReturned == recoveryStep \in {"done", "responded"} /\ Returned(recovered)
RecoveryThrew == recoveryStep \in {"done", "responded"} /\ recovered.threw
\* the step that produced the returned result
ReturningStep == attempts[Len(attempts)].step
DialectSql(result, dialect) == Get(result.platformSql, dialect)

\* C15: every result returned by transformProfileToViewDefinition, whichever
\* step produced it and whether or not the answer of the model carried a
\* platformSql of its own, has a SQL string for each of the five dialects.
C15_EveryDialectHasSql ==
    RecoveryReturned =>
       \A dialect \in DialectNames : IsString(DialectSql(recovered, dialect))

\* C16: the filter of the synthesized document is a containment predicate on
\* meta.profile, and the SQL strings produced for the five dialects from it
\* are pairwise distinct.
C16_DialectsPairwiseDistinct ==
    (RecoveryReturned /\ ReturningStep = "synthesize-fallback") =>
       \A d1, d2 \in DialectNames :
          d1 # d2 => DialectSql(recovered, d1) # DialectSql(recovered, d2)

\* The order of the steps and the position of the run before each of them.
StepOrder == <<"parse-as-is", "fix-up-and-reparse", "extract-fragments", "synthesize-fallback">>
StepPositions == <<"first attempt", "second attempt", "third attempt", "last resort">>
\* the text a step hands to JSON.parse
StepText(i) ==
    IF i = 1 THEN jsonContent
    ELSE IF i = 2 THEN FixUp(jsonContent)
    ELSE IF i = 3 THEN ViewDefinitionMatch(jsonContent)
    ELSE ""
\* the document a step that has not failed returns
StepDocument(attempt) ==
    IF attempt.step \in {"parse-as-is", "fix-up-and-reparse"}
    THEN Get(attempt.value, "viewDefinition")
    ELSE attempt.value
LacksRequiredField(value) ==
    \E field \in {"viewDefinition", "sqlQuery"} : ~Truthy(Get(value, field))
\* The steps run in the fixed order, each only after the one before it has
\* failed, and the run stops at the first step that has not failed, whose
\* document is the one returned.
StopsAtFirst(StepFailed(_)) ==
    /\ Len(attempts) <= Len(StepOrder)
    /\ \A i \in DOMAIN attempts :
          /\ attempts[i].step = StepOrder[i]
          /\ i < 4 => attempts[i].text = StepText(i)
          /\ i < Len(attempts) => StepFailed(attempts[i])
    /\ attempts # <<>> =>
          LET last == attempts[Len(attempts)] IN
          IF StepFailed(last)
          THEN Len(attempts) < Len(StepOrder)
               /\ recoveryStep = StepPositions[Len(attempts) + 1]
               /\ recovered = NotRun
          ELSE RecoveryReturned /\ recovered.viewDefinition = StepDocument(last)
    /\ attempts = <<>> => recoveryStep \in {"answered", "first attempt"} \/ RecoveryThrew
\* once a result is there, no step runs and the result stays
NoLaterStep == recovered # NotRun => attempts' = attempts /\ recovered' = recovered

NotParsed(attempt) == ~attempt.parsed
NotParsedOrIncomplete(attempt) ==
    \/ ~attempt.parsed
    \/ attempt.step \in {"parse-as-is", "fix-up-and-reparse"} /\ LacksRequiredField(attempt.value)

\* C17: the recovery steps run in the order parse-as-is, fix-up-and-reparse,
\* extract-fragments, synthesize-fallback, each only if the previous one
\* failed, and the run stops at the first step whose text parses as JSON; no
\* later step runs or overrides that result.
C17_StopsAtFirstParsedStep == [](StopsAtFirst(NotParsed)) /\ [][NoLaterStep]_vars

\* C17 (amended): the same, a step having failed when its text does not parse
\* as JSON or, for the first two steps, when the parsed value has no truthy
\* viewDefinition or no truthy sqlQuery.
C17_StopsAtFirstCompleteStep == [](StopsAtFirst(NotParsedOrIncomplete)) /\ [][NoLaterStep]_vars

\* a text that parses at the first step without the required fields: all four
\* steps have run and the synthesized document is returned
C17_Witness ==
    /\ RecoveryReturned
    /\ Len(attempts) = 4
    /\ attempts[1].parsed /\ attempts[2].parsed /\ ~attempts[3].parsed

\* the text of the message, empty when it has no text block
ResponseText(m) == IF ContentError(m) = "" THEN TextContent(m) ELSE ""

\* C18: for a well-formed answer without its last "}" and its last "]", the
\* text of the fix-up step parses, and the parsed document equals the one
\* parsed from the well-formed answer.
C18_FixUpRestoresTruncated ==
    \A original \in WellFormedTexts :
       (/\ Len(attempts) >= 2
        /\ ResponseText(modelMessage) = DropTrailingClosers(original)) =>
          /\ attempts[2].parsed
          /\ attempts[2].value = JSONParse(original).v

\* the message carries a text block
HasTextBlock(m) ==
    IsArray(m.content) /\ \E i \in DOMAIN m.content.a : m.content.a[i].type = "text"
\* no step recovers a document from the text
NoStepRecovers(text) ==
    LET json == JsonContentOf(text)
        asIs == JSONParse(json)
        fixed == JSONParse(FixUp(json))
    IN  /\ ~asIs.ok \/ LacksRequiredField(asIs.v)
        /\ ~fixed.ok \/ LacksRequiredField(fixed.v)
        /\ ~ExtractedViewDefinition(json).ok

\* C19: when no step parses or repairs the text of the answer, the function
\* returns the document synthesized for the profile; it does not throw, and
\* the transform request does not fail.
C19_IrrecoverableTextGivesFallback ==
    (/\ recoveryStep \in {"done", "responded"}
     /\ HasTextBlock(modelMessage)
     /\ NoStepRecovers(ResponseText(modelMessage))) =>
       /\ RecoveryReturned
       /\ recovered = FallbackResult(profileData)
       /\ recoveryStep = "responded" => response.status = 200

\* C20: the document synthesized by the last step has exactly the two
\* columns id and resourceType and one where entry, built from the url of
\* the profile, whatever the resource type and the structure definition.
C20_FallbackHasTwoColumns ==
    (RecoveryReturned /\ ReturningStep = "synthesize-fallback") =>
       LET fallbackColumns == FlatColumns(recovered.viewDefinition)
           filter == Get(recovered.viewDefinition, "where")
       IN  /\ [i \in DOMAIN fallbackColumns |-> Get(fallbackColumns[i], "name")]
                 = <<Str("id"), Str("resourceType")>>
           /\ IsArray(filter) /\ Len(filter.a) = 1
           /\ \E key \in DOMAIN filter.a[1].o :
                 /\ IsString(filter.a[1].o[key])
                 /\ StrIncludes(filter.a[1].o[key].s, profileData.url)

(***************************************************************************)
(* Properties of the server: stored transformations and the API key.       *)
(***************************************************************************)
\* the last response is the 200 response of GET /api/transformations/:id
Fetched == response.status = 200 /\ "transformation" \in DOMAIN response

\* C21: a GET /api/transformations/:id with the transformationId of a
\* successful transform request returns the viewDefinition, the sqlQuery and
\* the platformSql that the transform response contained.
C21_FetchReturnsWhatTransformReturned ==
    Fetched =>
       \A sent \in received :
          sent.transformationId = response.transformation.id =>
             /\ response.transformation.viewDefinition = sent.viewDefinition
             /\ response.transformation.sqlQuery = sent.sqlQuery
             /\ "platformSql" \in DOMAIN response.transformation
             /\ response.transformation.platformSql = sent.platformSql

(***************************************************************************)
(* MemStorage: the create operations on the seeded storage.                *)
(***************************************************************************)
MaxCreates == 2     \* users, guides and profiles created in one run

\* The records the create methods build; the id of the argument, if it has
\* one, is not read.
NewUser(insertUser) ==
    [id |-> nextUserId, username |-> insertUser.username,
     hashedPassword |-> insertUser.hashedPassword]
NewGuide(insertGuide) ==
    [id |-> nextGuideId, name |-> insertGuide.name, version |-> insertGuide.version,
     url |-> insertGuide.url, description |-> insertGuide.description]
NewProfileWithLastId(insertProfile) ==
    [id |-> nextProfileId - 1,
     implementationGuideId |-> insertProfile.implementationGuideId,
     resourceType |-> insertProfile.resourceType,
     name |-> insertProfile.name, url |-> insertProfile.url]
NewProfile(insertProfile) ==
    [id |-> nextProfileId,
     implementationGuideId |-> insertProfile.implementationGuideId,
     resourceType |-> insertProfile.resourceType,
     name |-> insertProfile.name, url |-> insertProfile.url]

InsertUsers ==
    {[username |-> "ann", hashedPassword |-> "h1"],
     [username |-> "ann", hashedPassword |-> "h2", id |-> 1]}
InsertGuides ==
    {[name |-> "US Core Implementation Guide", version |-> "5.0.1",
      url |-> "http://hl7.org/fhir/us/core/ImplementationGuide/hl7.fhir.us.core",
      description |-> "US Core Implementation Guide v5.0.1"],
     [name |-> "International Patient Summary", version |-> "1.1.0",
      url |-> "http://hl7.org/fhir/uv/ips/ImplementationGuide/hl7.fhir.uv.ips",
      description |-> "IPS", id |-> 1]}
InsertProfiles ==
    {[implementationGuideId |-> 1, resourceType |-> "Patient",
      name |-> "US Core Patient Profile", url |-> PatientUrl],
     [implementationGuideId |-> 3, resourceType |-> "Condition",
      name |-> "Condition (IPS)", url |-> "http://hl7.org/fhir/uv/ips/StructureDefinition/Condition-uv-ips",
      id |-> 2]}
InsertTransformations ==
    {[profileId |-> profileId, schema |-> "analytics", includeExtensions |-> "true",
      normalizeTables |-> "false", viewDefinition |-> Null, sqlQuery |-> sqlText,
      platformSql |-> Null] : profileId \in {1, 7}, sqlText \in SqlTexts}

InitStorage ==
    /\ StorageSeeded /\ WizardIdle /\ PathIdle
    /\ ValidatorIdle /\ NormalizerIdle /\ ServerIdle /\ BuilderIdle /\ PreviewIdle
    /\ RecoveryIdle

StorageOnly ==
    UNCHANGED <<wizardVars, pathVars, envApiKey, response, received, validatorVars, normalizerVars, builderVars,
                previewVars, recoveryVars>>

createUser(insertUser) ==
    /\ nextUserId <= MaxCreates
    /\ users' = Append(users, NewUser(insertUser))
    /\ nextUserId' = nextUserId + 1
    /\ UNCHANGED <<implementationGuides, profiles, nextGuideId, nextProfileId,
                   transformations, nextTransformationId>>
    /\ StorageOnly

createImplementationGuide(insertGuide) ==
    /\ nextGuideId <= Len(SeededGuides) + MaxCreates
    /\ implementationGuides' = Append(implementationGuides, NewGuide(insertGuide))
    /\ nextGuideId' = nextGuideId + 1
    /\ UNCHANGED <<users, profiles, nextUserId, nextProfileId,
                   transformations, nextTransformationId>>
    /\ StorageOnly

createProfile(insertProfile) ==
    /\ nextProfileId <= Len(SeededProfiles) + MaxCreates
    /\ profiles' = Append(profiles, NewProfile(insertProfile))
    /\ nextProfileId' = nextProfileId + 1
    /\ UNCHANGED <<users, implementationGuides, nextUserId, nextGuideId,
                   transformations, nextTransformationId>>
    /\ StorageOnly

createTransformation(insertTransformation) ==
    /\ nextTransformationId <= MaxTransformations
    /\ transformations' = Append(transformations, NewTransformation(insertTransformation))
    /\ nextTransformationId' = nextTransformationId + 1
    /\ UNCHANGED storageVars
    /\ StorageOnly

NextStorage ==
    \/ \E insertUser \in InsertUsers : createUser(insertUser)
    \/ \E insertGuide \in InsertGuides : createImplementationGuide(insertGuide)
    \/ \E insertProfile \in InsertProfiles : createProfile(insertProfile)
    \/ \E insertTransformation \in InsertTransformations :
          createTransformation(insertTransformation)

SpecStorage == InitStorage /\ [][NextStorage]_vars

\* The ids of a kind of records, in the order they were handed out.
IdsOf(records) == [i \in DOMAIN records |-> records[i].id]
StrictlyIncreasing(ids) == \A i, j \in DOMAIN ids : i < j => ids[i] < ids[j]
IsPrefix(before, after) ==
    Len(before) <= Len(after) /\ SubSeq(after, 1, Len(before)) = before
\* every record is still there, unchanged, in its place
RecordsKept ==
    /\ IsPrefix(users, users')
    /\ IsPrefix(implementationGuides, implementationGuides')
    /\ IsPrefix(profiles, profiles')
    /\ IsPrefix(transformations, transformations')

\* C22: after any sequence of create operations on the seeded storage, the
\* ids of each kind of records are pairwise different and each id handed out
\* is greater than every id handed out before for that kind; no record is
\* ever modified or removed.
C22_IdsUniqueAndIncreasing ==
    /\ [](\A records \in {users, implementationGuides, profiles, transformations} :
             StrictlyIncreasing(IdsOf(records)))
    /\ [][RecordsKept]_vars

C22_Witness ==
    /\ Len(users) = 2
    /\ Len(implementationGuides) = Len(SeededGuides) + 2
    /\ Len(profiles) = Len(SeededProfiles) + 2
    /\ Len(transformations) = 2

\* routes.ts 409-412: the body as the handler logs it
LoggedBody(body) ==
    SetProp(body, "apiKey",
            IF Truthy(Get(body, "apiKey")) THEN Str("[REDACTED]") ELSE Undefined)
\* the apiKey values a user sends: none, an empty one, or a key
UserApiKeys == {Undefined, Str(""), Str("sk-ant-user"), Str("sk-ant-other")}
\* the key of the request occurs in none of the logged members
KeyNotLogged(body) ==
    Truthy(Get(body, "apiKey")) =>
       \A member \in DOMAIN LoggedBody(body).o : LoggedBody(body).o[member] # Get(body, "apiKey")

\* C23: the apiKey of a transform request is not stored, not logged and not
\* used: the same request with any other apiKey leads to the same stored
\* transformation and the same response, and ANTHROPIC_API_KEY has the same
\* value after the request as before it, on every exit path.
C23_ApiKeyOfRequestIgnored ==
    [][\A idParam \in IdParams, body \in RequestBodies, result \in TransformationResults :
          Transform(idParam, body, result) =>
             /\ envApiKey' = envApiKey
             /\ KeyNotLogged(body)
             /\ \A record \in Range(transformations') : "apiKey" \notin DOMAIN record
             /\ \A apiKey \in UserApiKeys :
                   Transform(idParam, SetProp(body, "apiKey", apiKey), result)]_vars

(***************************************************************************)
(* Properties of the interactive builder.                                  *)
(***************************************************************************)
ProfileSelected == selectedProfile # NoProfile
\* a step in which onGenerateViewDefinition hands a document to the page
GeneratesViewDefinition == viewDefinition' # Null /\ viewDefinition' # viewDefinition

\* C24: no view definition is generated, shown or executed while no profile
\* is selected: the column builder calls onGenerateViewDefinition only with a
\* profile, and the build and view steps are reached and kept only while a
\* profile is selected, whatever the selections and back/next actions.
C24_NoViewDefinitionWithoutProfile ==
    /\ [](step \in {"build", "view"} => ProfileSelected)
    /\ [](viewDefinition # Null => ProfileSelected)
    /\ [][GeneratesViewDefinition => ProfileSelected /\ selectedProfile' = selectedProfile]_vars

\* back in the view step with a profile of the second guide
C24_Witness ==
    /\ step = "view"
    /\ viewDefinition # Null
    /\ selectedProfile.id = 4

\* C25: the execution results the view step shows belong to the view
\* definition it shows: an answer that arrives after the user went back to
\* the build or the setup step is never shown for another, a regenerated or
\* no view definition.
C25_ResultsBelongToShownView ==
    (step = "view" /\ executionResults # Null) =>
       executionResults.request.viewDefinition = viewDefinition


(***************************************************************************)
(* The transform wizard: Router's transformerState and the four routes     *)
(* /transform, /transform/select-profile, /transform/transform-profile and *)
(* /transform/view-results.                                                *)
(***************************************************************************)
WizardOnly ==
    UNCHANGED <<validatorVars, normalizerVars, serverVars, builderVars, previewVars,
                storageVars, recoveryVars, pathVars>>

InitWizard ==
    /\ WizardIdle /\ PathIdle /\ StorageSeeded
    /\ ValidatorIdle /\ NormalizerIdle /\ ServerIdle /\ BuilderIdle /\ PreviewIdle
    /\ RecoveryIdle

\* the guide names whose lower case includes 'us core'
UsCoreNames == {"US Core Implementation Guide"}

\* guides.find(guide => guide.name.toLowerCase().includes('us core'))
FindUsCore(guides) ==
    LET hits == {i \in DOMAIN guides : guides[i].name \in UsCoreNames}
    IN  IF hits = {} THEN NoGuide
        ELSE guides[CHOOSE i \in hits : \A j \in hits : i <= j]

\* SelectImplementationGuide's effect is due: no guide selected, guides loaded
DefaultGuideDue ==
    /\ location = "/transform"
    /\ transformerState.implementationGuide = NoGuide
    /\ FindUsCore(implementationGuides) # NoGuide

\* Router.handleSelectImplementationGuide
HandleSelectImplementationGuide(guide) ==
    transformerState' = [transformerState EXCEPT !.implementationGuide = guide]

\* Router.handleSelectResourceType
HandleSelectResourceType(resourceType) ==
    [transformerState EXCEPT !.resourceType = resourceType]

\* Router.handleSelectProfile applied to a transformerState
HandleSelectProfile(state, p) == [state EXCEPT !.profile = p]

\* SelectImplementationGuide: the effect that makes US Core the default
DefaultGuide ==
    /\ DefaultGuideDue
    /\ HandleSelectImplementationGuide(FindUsCore(implementationGuides))
    /\ UNCHANGED location
    /\ WizardOnly

\* SelectImplementationGuide: onValueChange of the guide select
SelectGuide(value) ==
    /\ location = "/transform"
    /\ ~DefaultGuideDue
    /\ \E i \in DOMAIN implementationGuides :
          /\ implementationGuides[i].id = value
          /\ \A j \in 1..(i - 1) : implementationGuides[j].id # value
          /\ HandleSelectImplementationGuide(implementationGuides[i])
    /\ UNCHANGED location
    /\ WizardOnly

\* SelectImplementationGuide.handleNext; the button is disabled without a guide
GuideNext ==
    /\ location = "/transform"
    /\ ~DefaultGuideDue
    /\ transformerState.implementationGuide # NoGuide
    /\ location' = "/transform/select-profile"
    /\ UNCHANGED transformerState
    /\ WizardOnly

\* SelectProfile's queries: the resource types of the guide and the profiles of
\* the guide and the selected resource type
WizardResourceTypes == ResourceTypesOf(transformerState.implementationGuide.id)
WizardProfiles ==
    IF transformerState.resourceType = "" THEN <<>>
    ELSE ProfilesOf(transformerState.implementationGuide.id, transformerState.resourceType)

\* SelectProfile is shown (without a guide its effect goes back to /transform)
SelectProfileShown ==
    /\ location = "/transform/select-profile"
    /\ transformerState.implementationGuide # NoGuide

\* SelectProfile.handleResourceTypeChange
HandleResourceTypeChange(value) ==
    /\ SelectProfileShown
    /\ value \in WizardResourceTypes
    /\ transformerState' = HandleSelectProfile(HandleSelectResourceType(value), NoProfile)
    /\ UNCHANGED location
    /\ WizardOnly

\* SelectProfile.handleProfileChange
HandleProfileChange(value) ==
    /\ SelectProfileShown
    /\ \E i \in DOMAIN WizardProfiles :
          /\ WizardProfiles[i].id = value
          /\ \A j \in 1..(i - 1) : WizardProfiles[j].id # value
          /\ transformerState' = HandleSelectProfile(transformerState, WizardProfiles[i])
    /\ UNCHANGED location
    /\ WizardOnly

\* SelectProfile.handleBack
SelectProfileBack ==
    /\ SelectProfileShown
    /\ location' = "/transform"
    /\ UNCHANGED transformerState
    /\ WizardOnly

\* SelectProfile.handleNext; the button is disabled without a profile
SelectProfileNext ==
    /\ SelectProfileShown
    /\ transformerState.profile # NoProfile
    /\ location' = "/transform/transform-profile"
    /\ UNCHANGED transformerState
    /\ WizardOnly

\* TransformProfile.handleBack
TransformProfileBack ==
    /\ location = "/transform/transform-profile"
    /\ location' = "/transform/select-profile"
    /\ UNCHANGED transformerState
    /\ WizardOnly

\* TransformProfile: transformMutation succeeds for the profile of the state:
\* Router.handleTransformationComplete, then the results route
TransformationComplete ==
    /\ location = "/transform/transform-profile"
    /\ transformerState.profile # NoProfile
    /\ transformerState' =
          [transformerState EXCEPT !.transformationResult =
              [profileId |-> transformerState.profile.id]]
    /\ location' = "/transform/view-results"
    /\ WizardOnly

\* ViewResults.handleBack
ViewResultsBack ==
    /\ location = "/transform/view-results"
    /\ location' = "/transform/transform-profile"
    /\ UNCHANGED transformerState
    /\ WizardOnly

\* ViewResults.handleNewTransformation: Router.handleNewTransformation, then
\* the first route
HandleNewTransformation ==
    /\ location = "/transform/view-results"
    /\ transformerState' = [implementationGuide |-> NoGuide, resourceType |-> "",
                            profile |-> NoProfile, transformationResult |-> Null]
    /\ location' = "/transform"
    /\ WizardOnly

NextWizard ==
    \/ DefaultGuide
    \/ \E value \in Range(IdsOf(implementationGuides)) : SelectGuide(value)
    \/ GuideNext
    \/ \E value \in WizardResourceTypes : HandleResourceTypeChange(value)
    \/ \E value \in Range(IdsOf(WizardProfiles)) : HandleProfileChange(value)
    \/ SelectProfileBack
    \/ SelectProfileNext
    \/ TransformProfileBack
    \/ TransformationComplete
    \/ ViewResultsBack
    \/ HandleNewTransformation

SpecWizard == InitWizard /\ [][NextWizard]_vars

(***************************************************************************)
(* Properties of the guide, resource type and profile selections.          *)
(***************************************************************************)
\* the profile belongs to the guide and has the resource type
BelongsTo(p, guide, resourceType) ==
    /\ guide # NoGuide
    /\ p.implementationGuideId = guide.id
    /\ p.resourceType = resourceType

\* C26: a selected profile belongs to the selected implementation guide and
\* its resource type is the selected resource type, after any sequence of
\* guide, resource type and profile selections and of back and next
\* navigation, in the transform wizard and in the interactive builder.
C26_ProfileBelongsToSelection ==
    /\ transformerState.profile # NoProfile =>
          BelongsTo(transformerState.profile, transformerState.implementationGuide,
                    transformerState.resourceType)
    /\ selectedProfile # NoProfile =>
          BelongsTo(selectedProfile, selectedGuide, selectedResourceType)

\* the builder's half of C26, which holds of InteractiveBuilder
BuilderProfileBelongsToSelection ==
    selectedProfile # NoProfile =>
       BelongsTo(selectedProfile, selectedGuide, selectedResourceType)

(***************************************************************************)
(* Properties of the records the transform handler creates.                *)
(***************************************************************************)
ErrorStatuses == {400, 404, 500}

\* the transform request of the step ends with an error response
TransformEndsInError ==
    /\ \E idParam \in IdParams, body \in RequestBodies, result \in TransformationResults :
          Transform(idParam, body, result)
    /\ response'.status \in ErrorStatuses

\* the profile the record names is stored
RefersToStoredProfile(record) ==
    \E i \in DOMAIN profiles : profiles[i].id = record.profileId

\* C27: a transform request that ends with a 400, 404 or 500 response creates
\* no transformation record, and every transformation record ever created
\* refers to a profile that exists in storage.
C27_ErrorsCreateNoRecord ==
    /\ [][TransformEndsInError =>
             UNCHANGED <<transformations, nextTransformationId>>]_vars
    /\ [](\A record \in Range(transformations) : RefersToStoredProfile(record))

\* a request ended with "Profile not found" after a record had been created
C27_Witness ==
    /\ response.status = 404
    /\ response.message = "Profile not found"
    /\ Len(transformations) >= 1
    /\ \A record \in Range(transformations) : RefersToStoredProfile(record)

(***************************************************************************)
(* Properties of the synthesized document as the handler answers it.       *)
(***************************************************************************)
ColumnNames(d) == [i \in DOMAIN FlatColumns(d) |-> Get(FlatColumns(d)[i], "name")]
PairwiseDistinct(s) == \A i, j \in DOMAIN s : s[i] = s[j] => i = j
SynthesizedReturned == RecoveryReturned /\ ReturningStep = "synthesize-fallback"
NoValidationErrors(d) ==
    LET outcome == validateViewDefinition(d)
    IN  ~outcome.threw /\ Len(outcome.errors) = 0

\* C28: the document synthesized when the answer of the model is unusable is
\* a valid view document: its resourceType is exactly "ViewDefinition", its
\* column names are pairwise distinct for every profile and structure
\* definition, and after the normalization of the transform handler
\* validateViewDefinition reports no error for it.
C28_FallbackIsValid ==
    SynthesizedReturned =>
       /\ Get(recovered.viewDefinition, "resourceType") = Str("ViewDefinition")
       /\ PairwiseDistinct(ColumnNames(recovered.viewDefinition))
       /\ recoveryStep = "responded" =>
             /\ response.status = 200
             /\ NoValidationErrors(response.viewDefinition)

(***************************************************************************)
(* validateFHIRPath (fhirpath utilities) and ColumnBuilder.updateColumn,   *)
(* which calls it for the path typed into a column.                        *)
(***************************************************************************)
MaxPathLen == 4

PATIENT_PATHS ==
    {"id", "active", "name", "name.family", "name.given", "name.use",
     "name.where(use = 'official').family.first()",
     "name.where(use = 'official').given.first()", "telecom", "telecom.value",
     "telecom.system", "telecom.use", "gender", "birthDate", "deceased", "address",
     "address.line", "address.city", "address.state", "address.postalCode",
     "address.country", "maritalStatus", "communication", "communication.language",
     "identifier", "identifier.value", "identifier.system", "identifier.type",
     "meta.profile",
     "meta.profile.where($this = 'http://hl7.org/fhir/us/core/StructureDefinition/us-core-patient').exists()"}
OBSERVATION_PATHS ==
    {"id", "status", "category", "code", "code.coding", "code.coding.system",
     "code.coding.code", "code.coding.display",
     "code.coding.where(system = 'http://loinc.org').code.first()", "subject", "encounter",
     "effective", "issued", "performer", "value", "valueQuantity", "valueQuantity.value",
     "valueQuantity.unit", "valueQuantity.system", "valueQuantity.code",
     "value.ofType(Quantity).value", "value.ofType(Quantity).unit", "dataAbsentReason",
     "interpretation", "note", "method", "specimen", "device", "referenceRange",
     "component", "component.code", "component.value", "meta.profile"}

\* getPathSuggestions(resourceType) without a query: the paths of the table
getPathSuggestions(resourceType) ==
    IF resourceType = "Patient" THEN PATIENT_PATHS
    ELSE IF resourceType = "Observation" THEN OBSERVATION_PATHS
    ELSE {}

\* The loop of validateFHIRPath: its variables before the first character
ScanStart ==
    [parenCount |-> 0, quoteSingle |-> FALSE, quoteDouble |-> FALSE, broke |-> FALSE]

\* the body of the loop, with parentheses counted inside quotes as well
ScanCharCountingInQuotes(scan, char) ==
    LET quoteSingle == IF char = "'" /\ ~scan.quoteDouble THEN ~scan.quoteSingle
                       ELSE scan.quoteSingle
        quoteDouble == IF char = Quote /\ ~quoteSingle THEN ~scan.quoteDouble
                       ELSE scan.quoteDouble
        parenCount == IF char = "(" THEN scan.parenCount + 1
                      ELSE IF char = ")" THEN scan.parenCount - 1
                      ELSE scan.parenCount
    IN  [parenCount |-> parenCount, quoteSingle |-> quoteSingle,
         quoteDouble |-> quoteDouble, broke |-> parenCount < 0]
\* the body of the loop for one character; broke is the break of the loop
ScanChar(scan, char) ==
    LET quoteSingle == IF char = "'" /\ ~scan.quoteDouble THEN ~scan.quoteSingle
                       ELSE scan.quoteSingle
        quoteDouble == IF char = Quote /\ ~quoteSingle THEN ~scan.quoteDouble
                       ELSE scan.quoteDouble
        outside == ~quoteSingle /\ ~quoteDouble
        parenCount == IF outside /\ char = "(" THEN scan.parenCount + 1
                      ELSE IF outside /\ char = ")" THEN scan.parenCount - 1
                      ELSE scan.parenCount
    IN  [parenCount |-> parenCount, quoteSingle |-> quoteSingle,
         quoteDouble |-> quoteDouble, broke |-> outside /\ parenCount < 0]

RECURSIVE ScanFrom(_, _, _)
ScanFrom(text, i, scan) ==
    IF i > Len(text) \/ scan.broke THEN scan
    ELSE ScanFrom(text, i + 1, ScanChar(scan, CharAt(text, i)))

\* syntaxErrors of validateFHIRPath, in the order of the pushes
SyntaxErrors(trimmedPath) ==
    LET scan == ScanFrom(trimmedPath, 1, ScanStart)
        StartsWith(sub) == StartsWithAt(trimmedPath, 1, sub)
    IN  (IF scan.broke THEN <<"Unmatched closing parenthesis">> ELSE <<>>)
        \o (IF scan.parenCount > 0 THEN <<"Unmatched opening parenthesis">> ELSE <<>>)
        \o (IF scan.quoteSingle \/ scan.quoteDouble THEN <<"Unmatched quote">> ELSE <<>>)
        \o (IF StrIncludes(trimmedPath, "..")
            THEN <<"Double dots (..) are not valid in FHIRPath">> ELSE <<>>)
        \o (IF StartsWith(".") /\ ~StartsWith(".where(") /\ ~StartsWith(".first(")
               /\ ~StartsWith(".exists(")
            THEN <<"FHIRPath cannot start with a dot unless it's a function">>
            ELSE <<>>)

\* semanticWarnings of validateFHIRPath
SemanticWarnings(trimmedPath, resourceType) ==
    LET rootPath == Split(Split(trimmedPath, ".")[1], "(")[1]
    IN  IF resourceType = "" \/ rootPath \in {"getResourceKey", "resourceType", "meta"}
        THEN <<>>
        ELSE IF \E validPath \in getPathSuggestions(resourceType) :
                   StartsWithAt(validPath, 1, rootPath)
        THEN <<>>
        ELSE <<"'" \o rootPath \o "' may not be a valid path for " \o resourceType
               \o " resources">>

validateFHIRPath(path, resourceType) ==
    IF path = "" \/ Trim(path) = ""
    THEN [isValid |-> FALSE, error |-> "FHIRPath expression cannot be empty"]
    ELSE IF SyntaxErrors(Trim(path)) # <<>>
    THEN [isValid |-> FALSE, error |-> SyntaxErrors(Trim(path))[1]]
    ELSE IF SemanticWarnings(Trim(path), resourceType) # <<>>
    THEN [isValid |-> TRUE, suggestions |-> SemanticWarnings(Trim(path), resourceType)]
    ELSE [isValid |-> TRUE]

\* The texts typed into a path field: every text over the alphabet up to
\* MaxPathLen characters, and paths of the length users write.
PathAlphabet == {"(", ")", "'", Quote, ".", "a", " "}
RECURSIVE TextsOfLength(_)
TextsOfLength(n) ==
    IF n = 0 THEN {""}
    ELSE {text \o char : text \in TextsOfLength(n - 1), char \in PathAlphabet}
WrittenPaths ==
    {"name.where(use = 'official').family.first()",
     "name.where(use = 'official (legal)').given.first(",
     "..name.where(use = ')').given(",
     ").identifier.where(system = " \o Quote \o "urn:(oid)",
     ".where(active = true)", ".first()", ".exists()", ".family",
     "getResourceKey()", "subject.reference", "meta.profile"}
PathTexts == UNION {TextsOfLength(n) : n \in 0..MaxPathLen} \cup WrittenPaths

InitPath ==
    /\ pathInput \in PathTexts
    /\ pathValidation = NotRun
    /\ pathError = ""
    /\ WizardIdle /\ StorageSeeded
    /\ ValidatorIdle /\ NormalizerIdle /\ ServerIdle /\ BuilderIdle /\ PreviewIdle
    /\ RecoveryIdle

\* ColumnBuilder.updateColumn for updates that carry the typed path, as far
\* as the path is concerned: validateFHIRPath for the resource type of the
\* profile and the validationErrors entry of the column.
UpdateColumnPath(p) ==
    /\ pathValidation = NotRun
    /\ \E checked \in {validateFHIRPath(pathInput, p.resourceType)} :
          /\ pathValidation' = checked
          /\ pathError' = IF checked.isValid THEN "" ELSE checked.error
    /\ UNCHANGED <<pathInput, validatorVars, normalizerVars, serverVars, builderVars,
                   previewVars, storageVars, recoveryVars, wizardVars>>

NextPath == \E p \in SelectableProfiles : UpdateColumnPath(p)

SpecPath == InitPath /\ [][NextPath]_vars

(***************************************************************************)
(* Properties of validateFHIRPath.  The quoted literals of a text are read *)
(* literal by literal: a literal runs from a quote character outside any   *)
(* literal to the next occurrence of the same character, or to the end of  *)
(* the text when there is none (the literal is left unclosed).             *)
(***************************************************************************)
QuoteChars == {"'", Quote}

RECURSIVE LiteralsFrom(_, _)
LiteralsFrom(text, from) ==
    LET opening == {i \in from..Len(text) : CharAt(text, i) \in QuoteChars}
        first == Least(opening)
        closing == {j \in (first + 1)..Len(text) : CharAt(text, j) = CharAt(text, first)}
    IN  IF opening = {} THEN [inside |-> {}, unclosed |-> FALSE]
        ELSE IF closing = {} THEN [inside |-> first..Len(text), unclosed |-> TRUE]
        ELSE LET rest == LiteralsFrom(text, Least(closing) + 1)
             IN  [inside |-> (first..Least(closing)) \cup rest.inside,
                  unclosed |-> rest.unclosed]

UnclosedLiteral(text) == LiteralsFrom(text, 1).unclosed

\* the parentheses of the text that stand outside its quoted literals
OutsideParens(text) ==
    LET inside == LiteralsFrom(text, 1).inside
        piece == [i \in 1..Len(text) |->
                    IF i \notin inside /\ CharAt(text, i) \in {"(", ")"}
                    THEN CharAt(text, i) ELSE ""]
    IN  ConcatRange(piece, 1, Len(text))

ParenErrors == {"Unmatched closing parenthesis", "Unmatched opening parenthesis"}

\* the error of the first check that fails, in the order of the checks
FirstFailingCheck(text) ==
    LET outer == OutsideParens(text)
        LeadingDotAllowed == \E call \in {".where(", ".first(", ".exists("} :
                                StartsWithAt(text, 1, call)
    IN  IF text = "" THEN "FHIRPath expression cannot be empty"
        ELSE IF \E n \in 1..Len(outer) : ParenDepth(outer, n) < 0
        THEN "Unmatched closing parenthesis"
        ELSE IF ParenDepth(outer, Len(outer)) > 0 THEN "Unmatched opening parenthesis"
        ELSE IF UnclosedLiteral(text) THEN "Unmatched quote"
        ELSE IF StrIncludes(text, "..") THEN "Double dots (..) are not valid in FHIRPath"
        ELSE IF StartsWithAt(text, 1, ".") /\ ~LeadingDotAllowed
        THEN "FHIRPath cannot start with a dot unless it's a function"
        ELSE ""

\* C29: validateFHIRPath answers isValid = false for every expression whose
\* parentheses outside quoted literals are unbalanced and for every
\* expression with a quoted literal left unclosed; a parenthesis inside a
\* quoted literal never counts towards the balance; and an invalid
\* expression gets exactly one error, that of the first check that fails.
C29_PathSyntaxChecks ==
    pathValidation # NotRun =>
       LET text == Trim(pathInput)
       IN  /\ ~BalancedParens(OutsideParens(text)) => ~pathValidation.isValid
           /\ UnclosedLiteral(text) => ~pathValidation.isValid
           /\ (BalancedParens(OutsideParens(text)) /\ ~pathValidation.isValid) =>
                 pathValidation.error \notin ParenErrors
           /\ pathValidation.isValid <=> FirstFailingCheck(text) = ""
           /\ ~pathValidation.isValid =>
                 /\ DOMAIN pathValidation = {"isValid", "error"}
                 /\ pathValidation.error = FirstFailingCheck(text)
                 /\ pathError = pathValidation.error

\* a path with a ")" inside a literal, a "(" left open and double dots was
\* checked: the error is that of the open parenthesis
C29_Witness ==
    /\ pathInput = "..name.where(use = ')').given("
    /\ pathValidation # NotRun
    /\ ~pathValidation.isValid
    /\ pathValidation.error = "Unmatched opening parenthesis"

====
